---- MODULE Spec2Model ----
(***************************************************************************)
(* A model of the network configuration engine of LinuxNetAPI              *)
(* (src/main.py): the NetworkManager class (netplan document store,        *)
(* legacy interfaces file, direct ip-command applier) and the HTTP         *)
(* handlers that guard and dispatch to it.                                 *)
(*                                                                         *)
(* Text files are modelled by their parsed content: a netplan document by  *)
(* the value yaml.safe_load returns for it, the interfaces file by its     *)
(* lines.  External commands are modelled by the environment: a tool is    *)
(* present or absent (FileNotFoundError), a command exits zero or non-zero *)
(* (CalledProcessError when run with check=True).                          *)
(***************************************************************************)
EXTENDS Integers, Sequences, FiniteSets, TLC

VARIABLES
    config_type,   \* NetworkManager.config_type
    is_container,  \* NetworkManager.is_container
    absent,        \* tools that are not installed (subprocess raises FileNotFoundError)
    failing,       \* commands that exit non-zero when run
    netplan,       \* /etc/netplan: file name -> document
    ifile,         \* /etc/network/interfaces: [exists, lines]
    resolv,        \* /etc/resolv.conf: sequence of lines
    inventory,     \* interface names reported by `ip -j addr show`
    last,          \* the last operation: its request, its result and what it did
    nops,          \* operations the behaviour may still perform
    live_hostname, \* the hostname the kernel and the hostname service report
    hostname_file, \* /etc/hostname: [exists, text]
    hosts,         \* /etc/hosts: [exists, lines]
    workers,       \* configure calls in progress in worker processes: id -> position
    glob_order     \* /etc/netplan: the *.yaml files in the order glob yields them

vars == <<config_type, is_container, absent, failing, netplan, ifile, resolv,
          inventory, last, nops, live_hostname, hostname_file, hosts, workers,
          glob_order>>

(***************************************************************************)
(* Bounds of the model.                                                    *)
(***************************************************************************)
MaxOps == 2        \* operations per behaviour
MaxFaults == 2     \* missing tools and failing commands in one environment
MaxApiOps == 1     \* requests per behaviour of the HTTP interface
MaxTail == 4       \* characters after the stem of a candidate interface name
MaxServers == 2    \* entries of a list of DNS servers

(***************************************************************************)
(* Interface names.  A name is a string of the program; NameChars gives    *)
(* its characters, which the regular expressions of the source read.       *)
(***************************************************************************)
NameChars ==
    ("eth0" :> <<"e","t","h","0">>) @@
    ("eth1" :> <<"e","t","h","1">>) @@
    ("eth10" :> <<"e","t","h","1","0">>) @@
    ("enp0s3" :> <<"e","n","p","0","s","3">>) @@
    ("lo" :> <<"l","o">>) @@
    ("docker0" :> <<"d","o","c","k","e","r","0">>) @@
    ("veth1234" :> <<"v","e","t","h","1","2","3","4">>) @@
    ("" :> <<>>)

Digits == {"0","1","2","3","4","5","6","7","8","9"}
HexLower == Digits \cup {"a","b","c","d","e","f"}

(***************************************************************************)
(* InterfaceNameClassifier: NetworkManager._is_public_network_interface.   *)
(* A pattern is a sequence of elements: a literal character, \d+ or        *)
(* [0-9a-f]{12}.  re.match anchors at the start; the final $ matches at    *)
(* the end of the string and also just before a final newline.             *)
(***************************************************************************)
Lit(cs) == [i \in 1..Len(cs) |-> [t |-> "lit", c |-> cs[i]]]
DigitsPlus == << [t |-> "digits", c |-> ""] >>

public_patterns ==
    << Lit(<<"e","t","h">>) \o DigitsPlus,
       Lit(<<"e","n","s">>) \o DigitsPlus,
       Lit(<<"e","n","p">>) \o DigitsPlus \o Lit(<<"s">>) \o DigitsPlus,
       Lit(<<"e","n","o">>) \o DigitsPlus,
       Lit(<<"e","n","x">>) \o << [t |-> "hex12", c |-> ""] >>,
       Lit(<<"e","m">>) \o DigitsPlus,
       Lit(<<"p">>) \o DigitsPlus \o Lit(<<"p">>) \o DigitsPlus,
       Lit(<<"w","l","a","n">>) \o DigitsPlus,
       Lit(<<"w","l","p">>) \o DigitsPlus \o Lit(<<"s">>) \o DigitsPlus,
       Lit(<<"w","l","o">>) \o DigitsPlus,
       Lit(<<"w","w","p">>) \o DigitsPlus \o Lit(<<"s">>) \o DigitsPlus >>

\* \d of a str pattern is every Unicode decimal digit: the ASCII digits and,
\* for one, "U+0663" (ARABIC-INDIC DIGIT THREE, one character).
RECURSIVE re_match_from(_, _, _, _)
re_match_from(p, i, s, j) ==
    IF i > Len(p)
    THEN j = Len(s) + 1 \/ (j = Len(s) /\ s[j] = "\n")
    ELSE LET e == p[i] IN
         CASE e.t = "lit" ->
                  j <= Len(s) /\ s[j] = e.c /\ re_match_from(p, i + 1, s, j + 1)
           [] e.t = "digits" ->
                  \E k \in (j + 1)..(Len(s) + 1) :
                      /\ \A m \in j..(k - 1) : s[m] \in Digits \cup {"U+0663"}
                      /\ re_match_from(p, i + 1, s, k)
           [] e.t = "hex12" ->
                  /\ j + 11 <= Len(s)
                  /\ \A m \in j..(j + 11) : s[m] \in HexLower
                  /\ re_match_from(p, i + 1, s, j + 12)

re_match(p, s) == re_match_from(p, 1, s, 1)

is_public_chars(s) == \E k \in 1..Len(public_patterns) : re_match(public_patterns[k], s)

is_public_network_interface(name) == is_public_chars(NameChars[name])

(***************************************************************************)
(* AddressMath.  A dotted netmask is the sequence of its octet strings     *)
(* (netmask.split('.')); OctetValue is int() on an octet string, defined   *)
(* on the strings int() accepts.                                           *)
(***************************************************************************)
OctetValue ==
    ("255" :> 255) @@ ("254" :> 254) @@ ("252" :> 252) @@ ("248" :> 248) @@
    ("240" :> 240) @@ ("224" :> 224) @@ ("192" :> 192) @@ ("128" :> 128) @@ ("0" :> 0)

RECURSIVE count_ones(_)
count_ones(n) == IF n = 0 THEN 0 ELSE (n % 2) + count_ones(n \div 2)

RECURSIVE sum_ones(_)
sum_ones(octets) ==
    IF octets = <<>> THEN 0
    ELSE count_ones(OctetValue[Head(octets)]) + sum_ones(Tail(octets))

\* NetworkManager._prefix_to_netmask.  The mask is a 32-bit number, held as
\* its bits from the most significant one: 0xffffffff shifted right and then
\* left by 32 - prefix_len.  (mask >> k) & 255 is the number of one byte;
\* each octet is formatted in decimal.
prefix_to_netmask(prefix_len) ==
    LET n == 32 - prefix_len
        ones == [i \in 1..32 |-> 1]
        shifted_right == SubSeq(ones, 1, 32 - n)
        mask == shifted_right \o [i \in 1..n |-> 0]
        byte(k) == LET b == SubSeq(mask, 8 * k + 1, 8 * k + 8)
                   IN 128 * b[1] + 64 * b[2] + 32 * b[3] + 16 * b[4] + 8 * b[5] +
                      4 * b[6] + 2 * b[7] + b[8]
        text == (0 :> "0") @@ (128 :> "128") @@ (192 :> "192") @@ (224 :> "224") @@
                (240 :> "240") @@ (248 :> "248") @@ (252 :> "252") @@ (254 :> "254") @@
                (255 :> "255")
    IN << text[byte(0)], text[byte(1)], text[byte(2)], text[byte(3)] >>

\* int(octet) raises ValueError on a string that is no integer.
netmask_parses(netmask) == \A i \in 1..Len(netmask) : netmask[i] \in DOMAIN OctetValue

\* Variant of _calculate_cidr that counts eight bits for every non-zero
\* octet.
calculate_cidr_whole_octets(ip_address, netmask) ==
    IF netmask_parses(netmask)
    THEN [exc |-> "none",
          cidr |-> <<ip_address,
                     8 * Cardinality({i \in 1..Len(netmask) : OctetValue[netmask[i]] # 0})>>]
    ELSE [exc |-> "ValueError", cidr |-> <<ip_address, 0>>]

\* NetworkManager._calculate_cidr, the second definition of the class body
\* (it replaces the first): [exc, cidr], the CIDR being <<ip, prefix>>.
calculate_cidr(ip_address, netmask) ==
    IF netmask_parses(netmask)
    THEN [exc |-> "none", cidr |-> <<ip_address, sum_ones(netmask)>>]
    ELSE [exc |-> "ValueError", cidr |-> <<ip_address, 0>>]

(***************************************************************************)
(* Desired configurations (NetworkConfig payloads).  A gateway of "" is    *)
(* None; dns_servers of <<>> is None or the empty list.                    *)
(***************************************************************************)
Mask24 == <<"255", "255", "255", "0">>

CfgStatic ==
    [is_dhcp |-> FALSE, ip_address |-> "10.0.0.5", netmask |-> Mask24,
     gateway |-> "10.0.0.1", dns_servers |-> <<"8.8.8.8">>]
CfgDhcp ==
    [is_dhcp |-> TRUE, ip_address |-> "10.0.0.5", netmask |-> Mask24,
     gateway |-> "10.0.0.1", dns_servers |-> <<"8.8.8.8">>]

\* The payloads of the configure calls: static with and without gateway and
\* servers, DHCP, static with the netmask "255.255.abc.0".
Configs ==
    { CfgStatic,
      [is_dhcp |-> FALSE, ip_address |-> "10.0.0.5", netmask |-> Mask24,
       gateway |-> "", dns_servers |-> <<>>],
      CfgDhcp,
      [is_dhcp |-> FALSE, ip_address |-> "10.0.0.5",
       netmask |-> <<"255", "255", "abc", "0">>,
       gateway |-> "10.0.0.1", dns_servers |-> <<>>] }

(***************************************************************************)
(* The environment of subprocess.run.  A step is one call: the command,    *)
(* the tool it needs, whether it is run with check=True, the interface     *)
(* and the arguments.  An event records a step that was attempted.         *)
(***************************************************************************)
Step(c, tool, check, n, a) == [c |-> c, tool |-> tool, check |-> check, n |-> n, a |-> a]

Ev(c, n, a, r) == [c |-> c, n |-> n, a |-> a, r |-> r]

step_event(st) ==
    Ev(st.c, st.n, st.a,
       IF st.tool \in absent THEN "absent"
       ELSE IF st.c \in failing THEN "fail" ELSE "ok")

\* A block of consecutive subprocess.run calls: it stops at the first
\* exception (x: the exception subprocess.run raises for a step, or "none").
RECURSIVE run_steps(_)
run_steps(steps) ==
    IF steps = <<>> THEN [trace |-> <<>>, exc |-> "none"]
    ELSE LET st == Head(steps)
             x == IF st.tool \in absent THEN "FNF"
                  ELSE IF st.check /\ st.c \in failing THEN "CPE"
                  ELSE "none"
         IN IF x # "none"
            THEN [trace |-> <<step_event(st)>>, exc |-> x]
            ELSE LET rest == run_steps(Tail(steps))
                 IN [trace |-> <<step_event(st)>> \o rest.trace, exc |-> rest.exc]

(***************************************************************************)
(* NetplanFileStore.  A document is what yaml.safe_load returns for it:    *)
(*   form "error"    the text does not parse (yaml.YAMLError)              *)
(*   form "empty"    None, or a mapping without the key network            *)
(*   form "netnull"  network: with no value (config["network"] is None)    *)
(*   form "net"      a mapping with network.ethernets: eth maps each       *)
(*                   interface to its block, rest stands for the other     *)
(*                   keys of the document                                  *)
(* mode says what the file system lets the process do with the file:       *)
(* "ok", "locked" (readable; unlink and open for writing fail),            *)
(* "unreadable" (open fails) or "dangling" (the name is a symbolic link    *)
(* whose target is missing: open and stat fail).  text is "orig" for a     *)
(* hand-written file and "dump" for the output of yaml.dump; perm is the   *)
(* file mode.                                                              *)
(***************************************************************************)
ConfigFileOf == ("eth0" :> "01-eth0.yaml") @@ ("eth1" :> "01-eth1.yaml")

StoreNames == DOMAIN ConfigFileOf

Files == {"01-eth0.yaml", "01-eth1.yaml", "50-cloud-init.yaml", "99-old.yml"}

\* netplan_dir.glob("*.yaml")
IsYaml(f) == f \in {"01-eth0.yaml", "01-eth1.yaml", "50-cloud-init.yaml"}


NoEth == [n \in {} |-> 0]

NoFile == [form |-> "absent", eth |-> NoEth, rest |-> "", mode |-> "", text |-> "", perm |-> ""]

Block(keys, dhcp4, addresses, routes, nameservers) ==
    [keys |-> keys, dhcp4 |-> dhcp4, addresses |-> addresses, routes |-> routes,
     nameservers |-> nameservers]

OldStatic == Block({"addresses"}, FALSE, << <<"192.168.1.10", 24>> >>, <<>>, <<>>)
OldDhcp == Block({"dhcp4"}, TRUE, <<>>, <<>>, <<>>)

NetDoc(eth, rest, mode, text, perm) ==
    [form |-> "net", eth |-> eth, rest |-> rest, mode |-> mode, text |-> text, perm |-> perm]

OtherDoc(form, mode) ==
    [form |-> form, eth |-> NoEth, rest |-> "", mode |-> mode, text |-> "orig", perm |-> "0644"]

Exists(d) == d.form # "absent"
CanRead(d) == d.mode \notin {"unreadable", "dangling"}
CanWrite(d) == d.mode = "ok"
CanUnlink(d) == d.mode = "ok"

\* netplan_dir.glob("*.yaml") yields the files in the order of the directory
\* (os.scandir), which the code never sorts: any order of the files present.
\* GlobOrders is the set of orders the directory of store can have when it
\* had the order old before: the files that stayed keep their relative
\* order, a file that was created, or unlinked and created again, can take
\* any place.
GlobOrders(old, store, unlinked) ==
    LET now == {f \in Files : IsYaml(f) /\ Exists(store[f])}
        kept == {f \in now : (\E i \in 1..Len(old) : old[i] = f) /\ f \notin unlinked}
        stays(s) == SelectSeq(s, LAMBDA f : f \in kept)
    IN {o \in [1..Cardinality(now) -> now] :
           /\ \A i, j \in 1..Cardinality(now) : o[i] = o[j] => i = j
           /\ stays(o) = stays(old)}

\* The document defines the interface under network.ethernets.
Defines(d, name) == d.form = "net" /\ name \in DOMAIN d.eth

DefiningFiles(store, name) == {f \in Files : IsYaml(f) /\ Defines(store[f], name)}

\* del ethernets[interface_name]
WithoutEth(eth, name) == [n \in (DOMAIN eth) \ {name} |-> eth[n]]

\* A cleanup that deletes every document defining the interface, siblings
\* or not.
cleanup_one_unlink_always(f, d, name) ==
    IF ~Exists(d) \/ ~CanRead(d) \/ d.form \in {"error", "empty", "netnull"}
    THEN [doc |-> d, trace |-> <<>>]
    ELSE IF name \notin DOMAIN d.eth
    THEN [doc |-> d, trace |-> <<>>]
    ELSE IF CanUnlink(d)
    THEN [doc |-> NoFile, trace |-> <<Ev("unlink", f, <<>>, "ok")>>]
    ELSE [doc |-> d, trace |-> <<Ev("unlink", f, <<>>, "fail")>>]

\* A cleanup that never deletes a file: it rewrites the document without
\* the block, also when no interface is left in it.
cleanup_one_keep_file(f, d, name) ==
    IF ~Exists(d) \/ ~CanRead(d) \/ d.form \in {"error", "empty", "netnull"}
    THEN [doc |-> d, trace |-> <<>>]
    ELSE IF name \notin DOMAIN d.eth
    THEN [doc |-> d, trace |-> <<>>]
    ELSE IF CanWrite(d)
    THEN [doc |-> [d EXCEPT !.eth = WithoutEth(d.eth, name), !.text = "dump"],
          trace |-> <<Ev("rewrite", f, <<>>, "ok")>>]
    ELSE [doc |-> d, trace |-> <<Ev("rewrite", f, <<>>, "fail")>>]

\* The body of the loop of _cleanup_netplan_files for one file: the
\* document left in its place and the file operations attempted.  An
\* exception (read, parse, attribute or type error, failed unlink or
\* write) is caught by the loop and leaves the file as it is.
cleanup_one(f, d, name) ==
    IF ~Exists(d) \/ ~CanRead(d) \/ d.form \in {"error", "empty", "netnull"}
    THEN [doc |-> d, trace |-> <<>>]
    ELSE IF name \notin DOMAIN d.eth
    THEN [doc |-> d, trace |-> <<>>]
    ELSE IF Cardinality(DOMAIN d.eth) = 1
    THEN IF CanUnlink(d)
         THEN [doc |-> NoFile, trace |-> <<Ev("unlink", f, <<>>, "ok")>>]
         ELSE [doc |-> d, trace |-> <<Ev("unlink", f, <<>>, "fail")>>]
    ELSE IF CanWrite(d)
         THEN [doc |-> [d EXCEPT !.eth = WithoutEth(d.eth, name), !.text = "dump"],
               trace |-> <<Ev("rewrite", f, <<>>, "ok")>>]
         ELSE [doc |-> d, trace |-> <<Ev("rewrite", f, <<>>, "fail")>>]

RECURSIVE cleanup_trace(_, _, _)
cleanup_trace(store, name, i) ==
    IF i > Len(glob_order) THEN <<>>
    ELSE cleanup_one(glob_order[i], store[glob_order[i]], name).trace
         \o cleanup_trace(store, name, i + 1)

\* A cleanup that stops at the first document it finds defining the
\* interface.
cleanup_netplan_files_first_only(store, name) ==
    LET first == {i \in 1..Len(glob_order) :
                     /\ Defines(store[glob_order[i]], name)
                     /\ \A j \in 1..(i - 1) : ~Defines(store[glob_order[j]], name)}
        hit == {glob_order[i] : i \in first}
    IN [store |-> [f \in Files |->
                      IF f \in hit THEN cleanup_one(f, store[f], name).doc ELSE store[f]],
        trace |-> IF hit = {} THEN <<>>
                  ELSE LET f == CHOOSE g \in hit : TRUE
                       IN cleanup_one(f, store[f], name).trace]

\* NetworkManager._cleanup_netplan_files: never raises.
cleanup_netplan_files(store, name) ==
    [store |-> [f \in Files |->
                   IF IsYaml(f) THEN cleanup_one(f, store[f], name).doc ELSE store[f]],
     trace |-> cleanup_trace(store, name, 1)]

\* A block that carries the static address also when dhcp is asked for.
netplan_block_dhcp_with_address(config, cidr) ==
    IF config.is_dhcp
    THEN Block({"dhcp4", "addresses"}, TRUE, <<cidr>>, <<>>, <<>>)
    ELSE Block({"addresses"}
                 \cup (IF config.gateway # "" THEN {"routes"} ELSE {})
                 \cup (IF config.dns_servers # <<>> THEN {"nameservers"} ELSE {}),
               FALSE,
               <<cidr>>,
               IF config.gateway # ""
                   THEN << [to |-> "default", via |-> config.gateway] >> ELSE <<>>,
               config.dns_servers)

\* The settings block _configure_netplan builds from the payload.
netplan_block(config, cidr) ==
    IF config.is_dhcp
    THEN Block({"dhcp4"}, TRUE, <<>>, <<>>, <<>>)
    ELSE Block({"addresses"}
                 \cup (IF config.gateway # "" THEN {"routes"} ELSE {})
                 \cup (IF config.dns_servers # <<>> THEN {"nameservers"} ELSE {}),
               FALSE,
               <<cidr>>,
               IF config.gateway # ""
                   THEN << [to |-> "default", via |-> config.gateway] >> ELSE <<>>,
               config.dns_servers)

\* The document written to 01-<name>.yaml, after the chmod to 0600.
netplan_document(name, config, cidr) ==
    NetDoc(name :> netplan_block(config, cidr), "version2", "ok", "dump", "0600")

(***************************************************************************)
(* str.strip(), str.lstrip() and str.rstrip() on a sequence of characters  *)
(* or of words and white-space characters.                                 *)
(***************************************************************************)
Whitespace == {" ", "\t", "\n"}

RECURSIVE lstrip(_)
lstrip(s) == IF s # <<>> /\ Head(s) \in Whitespace THEN lstrip(Tail(s)) ELSE s

RECURSIVE rstrip(_)
rstrip(s) ==
    IF s # <<>> /\ s[Len(s)] \in Whitespace THEN rstrip(SubSeq(s, 1, Len(s) - 1)) ELSE s

strip(s) == rstrip(lstrip(s))

(***************************************************************************)
(* /etc/resolv.conf: the sequence of its lines, without the line ends.  A  *)
(* line is the sequence of its words and of the white-space characters     *)
(* between and around them; the empty string is no word.                   *)
(***************************************************************************)
\* The words and white-space characters of an entry of a list of servers,
\* as f"nameserver {dns}" puts them on the line: nothing for the empty
\* string, the entry itself when it is one word.
dns_chars(dns) ==
    CASE dns = "" -> <<>>
      [] dns = " " -> <<" ">>
      [] dns = "8.8.8.8 " -> <<"8.8.8.8", " ">>
      [] dns = "8.8.8.8 1.1.1.1" -> <<"8.8.8.8", " ", "1.1.1.1">>
      [] OTHER -> <<dns>>

\* A rewrite that appends the servers and keeps every line of the file.
update_dns_servers_append_only(lines, dns_servers) ==
    [i \in 1..Len(lines) |-> rstrip(lines[i])]
    \o [i \in 1..Len(dns_servers) |-> <<"nameserver", " ">> \o dns_chars(dns_servers[i])]

\* NetworkManager._update_dns_servers: keeps line.rstrip() of every line
\* for which line.strip().startswith('nameserver') is false and appends
\* f"nameserver {dns}" per server.
update_dns_servers(lines, dns_servers) ==
    LET is_ns(l) == strip(l) # <<>> /\ Head(strip(l)) \in {"nameserver", "nameservers"}
        kept == SelectSeq(lines, LAMBDA l : ~is_ns(l))
        content == [i \in 1..Len(kept) |-> rstrip(kept[i])]
                   \o [i \in 1..Len(dns_servers) |->
                          <<"nameserver", " ">> \o dns_chars(dns_servers[i])]
    \* '\n'.join(content) + '\n' of an empty list is one empty line
    IN IF content = <<>> THEN << <<>> >> ELSE content

\* NetworkManager._get_dns_servers: line.strip().split()[1] of every line
\* for which line.strip().startswith("nameserver") holds.  A line without
\* a second word raises IndexError: the handler around the loop ends it and
\* the servers read so far are returned.
RECURSIVE get_dns_servers(_)
get_dns_servers(lines) ==
    IF lines = <<>> THEN <<>>
    ELSE LET s == strip(Head(lines))
             words == SelectSeq(s, LAMBDA t : t \notin Whitespace)
         IN IF s # <<>> /\ Head(s) \in {"nameserver", "nameservers"}
            THEN IF Len(words) < 2 THEN <<>>
                 ELSE <<words[2]>> \o get_dns_servers(Tail(lines))
            ELSE get_dns_servers(Tail(lines))

(***************************************************************************)
(* DirectIPApplier: NetworkManager._apply_ip_directly.  Returns the        *)
(* commands attempted, the exception that leaves the method ("none",       *)
(* "CPE", "FNF" or "ValueError") and the resolver file.                    *)
(***************************************************************************)
\* Variant of apply_ip_static without the handler around the route commands.
apply_ip_static_route_fatal(interface_name, config, rlines, head) ==
    LET c == calculate_cidr(config.ip_address, config.netmask) IN
    IF c.exc # "none" THEN [trace |-> head, exc |-> c.exc, resolv |-> rlines]
    ELSE
    LET addr == run_steps(<< Step("ip_addr_flush", "ip", FALSE, interface_name, <<>>),
                             Step("ip_addr_add", "ip", TRUE, interface_name, c.cidr) >>)
    IN
    IF addr.exc # "none"
    THEN [trace |-> head \o addr.trace, exc |-> addr.exc, resolv |-> rlines]
    ELSE
    LET route == IF config.gateway # ""
                 THEN run_steps(<< Step("ip_route_del", "ip", FALSE, interface_name, <<>>),
                                   Step("ip_route_add", "ip", TRUE, interface_name,
                                        <<config.gateway>>) >>)
                 ELSE [trace |-> <<>>, exc |-> "none"]
    IN
    IF route.exc # "none"
    THEN [trace |-> head \o addr.trace \o route.trace, exc |-> route.exc,
          resolv |-> rlines]
    ELSE IF config.dns_servers # <<>>
    THEN \* _update_dns_servers swallows every exception of the rewrite
         IF "write_resolv" \in failing
         THEN [trace |-> head \o addr.trace \o route.trace
                         \o <<Ev("write_resolv", interface_name, config.dns_servers,
                                 "fail")>>,
               exc |-> "none", resolv |-> rlines]
         ELSE [trace |-> head \o addr.trace \o route.trace
                         \o <<Ev("write_resolv", interface_name, config.dns_servers,
                                 "ok")>>,
               exc |-> "none",
               resolv |-> update_dns_servers(rlines, config.dns_servers)]
    ELSE [trace |-> head \o addr.trace \o route.trace, exc |-> "none", resolv |-> rlines]

apply_ip_static(interface_name, config, rlines, head) ==
    LET c == calculate_cidr(config.ip_address, config.netmask) IN
    IF c.exc # "none" THEN [trace |-> head, exc |-> c.exc, resolv |-> rlines]
    ELSE
    LET addr == run_steps(<< Step("ip_addr_flush", "ip", FALSE, interface_name, <<>>),
                             Step("ip_addr_add", "ip", TRUE, interface_name, c.cidr) >>)
    IN
    IF addr.exc # "none"
    THEN [trace |-> head \o addr.trace, exc |-> addr.exc, resolv |-> rlines]
    ELSE
    LET route == IF config.gateway # ""
                 THEN run_steps(<< Step("ip_route_del", "ip", FALSE, interface_name, <<>>),
                                   Step("ip_route_add", "ip", TRUE, interface_name,
                                        <<config.gateway>>) >>)
                 ELSE [trace |-> <<>>, exc |-> "none"]
    IN
    \* the inner handler catches CalledProcessError only
    IF route.exc = "FNF"
    THEN [trace |-> head \o addr.trace \o route.trace, exc |-> "FNF", resolv |-> rlines]
    ELSE IF config.dns_servers # <<>>
    THEN \* _update_dns_servers swallows every exception of the rewrite
         IF "write_resolv" \in failing
         THEN [trace |-> head \o addr.trace \o route.trace
                         \o <<Ev("write_resolv", interface_name, config.dns_servers,
                                 "fail")>>,
               exc |-> "none", resolv |-> rlines]
         ELSE [trace |-> head \o addr.trace \o route.trace
                         \o <<Ev("write_resolv", interface_name, config.dns_servers,
                                 "ok")>>,
               exc |-> "none",
               resolv |-> update_dns_servers(rlines, config.dns_servers)]
    ELSE [trace |-> head \o addr.trace \o route.trace, exc |-> "none", resolv |-> rlines]

\* Variant of apply_ip_dhcp without the handler around the DHCP client.
apply_ip_dhcp_client_fatal(interface_name, rlines, head) ==
    LET d == run_steps(<< Step("ip_addr_flush", "ip", FALSE, interface_name, <<>>),
                          Step("dhclient", "dhclient", TRUE, interface_name, <<>>) >>)
    IN [trace |-> head \o d.trace, exc |-> d.exc, resolv |-> rlines]

apply_ip_dhcp(interface_name, rlines, head) ==
    \* CalledProcessError and FileNotFoundError are caught and logged
    LET d == run_steps(<< Step("ip_addr_flush", "ip", FALSE, interface_name, <<>>),
                          Step("dhclient", "dhclient", TRUE, interface_name, <<>>) >>)
    IN [trace |-> head \o d.trace, exc |-> "none", resolv |-> rlines]

apply_ip_directly(interface_name, config, rlines) ==
    LET up == run_steps(<< Step("ip_link_up", "ip", FALSE, interface_name, <<>>) >>)
        head == <<Ev("direct_apply", interface_name, <<>>, "ok")>> \o up.trace
    IN IF up.exc # "none"
       THEN [trace |-> head, exc |-> up.exc, resolv |-> rlines]
       ELSE IF config.is_dhcp
       THEN apply_ip_dhcp(interface_name, rlines, head)
       ELSE apply_ip_static(interface_name, config, rlines, head)

(***************************************************************************)
(* BackendAdapter, Netplan variant: NetworkManager._configure_netplan.     *)
(* Returns the HTTP status of the call (200: returned True, 500: the       *)
(* HTTPException of the outer handler), what it attempted, and the store   *)
(* and resolver file it leaves.                                            *)
(***************************************************************************)
Outcome(status, trace, store, lines, rlines) ==
    [status |-> status, trace |-> trace, netplan |-> store, ifile |-> lines,
     resolv |-> rlines]

\* Lines 308-323: generate and DirectIPApplier inside a container, apply
\* outside; the handler of CalledProcessError and FileNotFoundError runs
\* DirectIPApplier and covers the whole try block.
activate_in_container(interface_name, config, rlines) ==
    LET g == run_steps(<< Step("netplan_generate", "netplan", TRUE, "", <<>>) >>)
    IN IF g.exc = "none"
       THEN LET d1 == apply_ip_directly(interface_name, config, rlines)
            IN IF d1.exc \in {"CPE", "FNF"}
               THEN LET d2 == apply_ip_directly(interface_name, config, d1.resolv)
                    IN [trace |-> g.trace \o d1.trace \o d2.trace, exc |-> d2.exc,
                        resolv |-> d2.resolv]
               ELSE [trace |-> g.trace \o d1.trace, exc |-> d1.exc,
                     resolv |-> d1.resolv]
       ELSE LET d == apply_ip_directly(interface_name, config, rlines)
            IN [trace |-> g.trace \o d.trace, exc |-> d.exc, resolv |-> d.resolv]

activate_on_host(interface_name, config, rlines) ==
    LET a == run_steps(<< Step("netplan_apply", "netplan", TRUE, "", <<>>) >>)
    IN IF a.exc = "none"
       THEN [trace |-> a.trace, exc |-> "none", resolv |-> rlines]
       ELSE LET d == apply_ip_directly(interface_name, config, rlines)
            IN [trace |-> a.trace \o d.trace, exc |-> d.exc, resolv |-> d.resolv]

\* An activation that ignores the container flag.
netplan_activate_ignoring_container(interface_name, config, rlines) ==
    activate_on_host(interface_name, config, rlines)

\* An activation that runs DirectIPApplier after `netplan apply` whatever
\* apply did.
netplan_activate_always_direct(interface_name, config, rlines) ==
    IF is_container
    THEN activate_in_container(interface_name, config, rlines)
    ELSE LET a == run_steps(<< Step("netplan_apply", "netplan", TRUE, "", <<>>) >>)
             d == apply_ip_directly(interface_name, config, rlines)
         IN [trace |-> a.trace \o d.trace, exc |-> d.exc, resolv |-> d.resolv]

netplan_activate(interface_name, config, rlines) ==
    IF is_container
    THEN activate_in_container(interface_name, config, rlines)
    ELSE activate_on_host(interface_name, config, rlines)

\* NetworkManager._validate_netplan_config: `netplan info`, run unchecked;
\* its result only decides whether a warning is printed.
validate_netplan_config(config_file) ==
    run_steps(<< Step("netplan_info", "netplan", FALSE, config_file, <<>>) >>).trace

\* Lines 262-327, after the cleanup cl: build the block, write the
\* document, validate, activate.
write_and_activate(cl, interface_name, config) ==
    LET c == calculate_cidr(config.ip_address, config.netmask)
        config_file == ConfigFileOf[interface_name]
    IN
    IF ~config.is_dhcp /\ c.exc # "none"
    THEN Outcome(500, cl.trace, cl.store, ifile, resolv)
    ELSE IF Exists(cl.store[config_file]) /\ ~CanWrite(cl.store[config_file])
    THEN Outcome(500, cl.trace \o <<Ev("write_netplan", config_file, <<>>, "fail")>>,
                 cl.store, ifile, resolv)
    ELSE
    LET written == [cl.store EXCEPT
                       ![config_file] = netplan_document(interface_name, config, c.cidr)]
        act == netplan_activate(interface_name, config, resolv)
        trace == cl.trace \o <<Ev("write_netplan", config_file, <<>>, "ok")>>
                 \o validate_netplan_config(config_file) \o act.trace
    IN Outcome(IF act.exc = "none" THEN 200 ELSE 500, trace, written, ifile, act.resolv)

\* A configure that writes its document without the cleanup first.
configure_netplan_without_cleanup(interface_name, config) ==
    write_and_activate([store |-> netplan, trace |-> <<>>], interface_name, config)

configure_netplan(interface_name, config) ==
    write_and_activate(cleanup_netplan_files(netplan, interface_name),
                       interface_name, config)

(***************************************************************************)
(* BackendAdapter, LegacyInterfaces variant.  /etc/network/interfaces is   *)
(* the sequence of its lines: auto <n>, iface <n> <v>, an option line of a *)
(* stanza, a blank line or any other line.                                 *)
(***************************************************************************)
ILine(k, n, v) == [k |-> k, n |-> n, v |-> v]

IsPrefix(a, b) == Len(a) <= Len(b) /\ SubSeq(b, 1, Len(a)) = a

\* The text the lazy .*? of the pattern consumes: up to the next place
\* where auto\s+\w+ or iface\s+\w+ matches, or the end of the file.
RECURSIVE skip_to_lookahead(_)
skip_to_lookahead(lines) ==
    IF lines = <<>> THEN <<>>
    ELSE IF Head(lines).k \in {"auto", "iface"} THEN lines
    ELSE skip_to_lookahead(Tail(lines))

\* re.sub(rf"auto\s+{interface_name}.*?(?=auto\s+\w+|iface\s+\w+|\Z)", "", content,
\* flags=re.DOTALL): a match starts at every auto line whose name begins
\* with interface_name.
RECURSIVE remove_auto_matches(_, _)
remove_auto_matches(lines, interface_name) ==
    IF lines = <<>> THEN <<>>
    ELSE IF /\ Head(lines).k = "auto"
            /\ IsPrefix(NameChars[interface_name], NameChars[Head(lines).n])
    THEN remove_auto_matches(skip_to_lookahead(Tail(lines)), interface_name)
    ELSE <<Head(lines)>> \o remove_auto_matches(Tail(lines), interface_name)

\* new_config of _configure_interfaces, lines 503-516.
new_config(interface_name, config) ==
    << ILine("blank", "", <<>>), ILine("auto", interface_name, <<>>) >>
    \o (IF config.is_dhcp
        THEN << ILine("iface", interface_name, <<"inet", "dhcp">>) >>
        ELSE << ILine("iface", interface_name, <<"inet", "static">>),
                ILine("opt", "", <<"address", config.ip_address>>),
                ILine("opt", "", <<"netmask">> \o config.netmask) >>
             \o (IF config.gateway # ""
                 THEN << ILine("opt", "", <<"gateway", config.gateway>>) >> ELSE <<>>)
             \o (IF config.dns_servers # <<>>
                 THEN << ILine("opt", "", <<"dns-nameservers">> \o config.dns_servers) >>
                 ELSE <<>>))

rewrite_interfaces(lines, interface_name, config) ==
    remove_auto_matches(lines, interface_name) \o new_config(interface_name, config)

\* Lines 524-534: ifdown/ifup, then the link down/up cycle; the inner
\* handler catches CalledProcessError only.
legacy_restart(interface_name) ==
    LET r1 == run_steps(<< Step("ifdown", "ifupdown", FALSE, interface_name, <<>>),
                           Step("ifup", "ifupdown", TRUE, interface_name, <<>>) >>)
    IN IF r1.exc = "none" THEN r1
       ELSE LET r2 == run_steps(<< Step("ip_link_down", "ip", FALSE, interface_name, <<>>),
                                   Step("ip_link_up", "ip", TRUE, interface_name, <<>>) >>)
            IN [trace |-> r1.trace \o r2.trace,
                exc |-> IF r2.exc = "CPE" THEN "none" ELSE r2.exc]

\* NetworkManager._configure_interfaces.
configure_interfaces(interface_name, config) ==
    LET content == IF ifile.exists THEN ifile.lines ELSE <<>>
        written == [exists |-> TRUE,
                    lines |-> rewrite_interfaces(content, interface_name, config)]
        wr == <<Ev("write_interfaces", interface_name, <<>>, "ok")>>
        rs == legacy_restart(interface_name)
    IN IF rs.exc # "none"
       THEN Outcome(500, wr \o rs.trace, netplan, written, resolv)
       ELSE LET d == apply_ip_directly(interface_name, config, resolv)
            IN \* every exception of DirectIPApplier is caught and logged
               Outcome(200, wr \o rs.trace \o d.trace, netplan, written, d.resolv)

\* A dispatch that treats every kind other than netplan as the legacy
\* interfaces file.
manager_configure_interface_legacy_default(interface_name, config) ==
    IF config_type = "netplan" THEN configure_netplan(interface_name, config)
    ELSE configure_interfaces(interface_name, config)

\* NetworkManager.configure_interface: dispatch on the detected kind.
manager_configure_interface(interface_name, config) ==
    IF config_type = "netplan" THEN configure_netplan(interface_name, config)
    ELSE IF config_type = "interfaces" THEN configure_interfaces(interface_name, config)
    ELSE Outcome(400, <<>>, netplan, ifile, resolv)

\* NetworkManager._is_dhcp_enabled.  On netplan (_check_dhcp_netplan) the
\* documents are read in glob order and the first one that defines the
\* interface answers with its dhcp4 key; a document that cannot be read or
\* parsed, or whose network key is null, raises, and the handler around the
\* loop answers False.  On the interfaces file (_check_dhcp_interfaces) it
\* is re.search(rf"iface\s+{interface_name}\s+inet\s+dhcp", content).
is_dhcp_enabled(interface_name) ==
    LET raises(d) == ~CanRead(d) \/ d.form \in {"error", "netnull"}
        answers(d) == raises(d) \/ Defines(d, interface_name)
        listed == glob_order
        hits == {i \in 1..Len(listed) : answers(netplan[listed[i]])}
        first == netplan[listed[CHOOSE i \in hits : \A j \in hits : i <= j]]
    IN IF config_type = "netplan"
       THEN /\ hits # {}
            /\ ~raises(first)
            /\ "dhcp4" \in first.eth[interface_name].keys
            /\ first.eth[interface_name].dhcp4
       ELSE IF config_type = "interfaces"
       THEN /\ ifile.exists
            /\ \E i \in 1..Len(ifile.lines) :
                   /\ ifile.lines[i].k = "iface"
                   /\ ifile.lines[i].n = interface_name
                   /\ IsPrefix(<<"inet", "dhcp">>, ifile.lines[i].v)
       ELSE FALSE

(***************************************************************************)
(* The HTTP handlers of src/main.py (the same handlers are repeated in     *)
(* src/api/interface_routes.py and src/api/network_routes.py).             *)
(***************************************************************************)
\* NetworkManager.get_interfaces as the handlers use it: `ip -j addr show`
\* run checked, filtered by the classifier.  The per-interface queries it
\* makes afterwards read state only and are not recorded.
get_interfaces ==
    LET q == run_steps(<< Step("ip_addr_show", "ip", TRUE, "", <<>>) >>)
    IN [trace |-> q.trace, exc |-> q.exc,
        names |-> {n \in inventory : is_public_network_interface(n)}]

\* POST /network/interfaces/{interface_name}/configure
configure_interface(interface_name, config) ==
    IF ~is_public_network_interface(interface_name)
    THEN Outcome(400, <<>>, netplan, ifile, resolv)
    ELSE LET inv == get_interfaces IN
         IF inv.exc # "none" THEN Outcome(500, inv.trace, netplan, ifile, resolv)
         ELSE IF interface_name \notin inv.names
         THEN Outcome(404, inv.trace, netplan, ifile, resolv)
         ELSE LET o == manager_configure_interface(interface_name, config)
              IN [o EXCEPT !.trace = inv.trace \o o.trace]

\* A cleanup handler that does not look the name up in the inventory.
cleanup_netplan_interface_unchecked(interface_name) ==
    IF ~is_public_network_interface(interface_name)
    THEN Outcome(400, <<>>, netplan, ifile, resolv)
    ELSE LET inv == get_interfaces IN
         IF inv.exc # "none" THEN Outcome(500, inv.trace, netplan, ifile, resolv)
         ELSE LET cl == cleanup_netplan_files(netplan, interface_name)
              IN Outcome(200, inv.trace \o cl.trace, cl.store, ifile, resolv)

\* DELETE /network/netplan/cleanup/{interface_name}
cleanup_netplan_interface(interface_name) ==
    IF ~is_public_network_interface(interface_name)
    THEN Outcome(400, <<>>, netplan, ifile, resolv)
    ELSE LET inv == get_interfaces IN
         IF inv.exc # "none" THEN Outcome(500, inv.trace, netplan, ifile, resolv)
         ELSE IF interface_name \notin inv.names
         THEN Outcome(404, inv.trace, netplan, ifile, resolv)
         ELSE LET cl == cleanup_netplan_files(netplan, interface_name)
              IN Outcome(200, inv.trace \o cl.trace, cl.store, ifile, resolv)

\* GET /network/interfaces/{interface_name}
get_interface(interface_name) ==
    IF ~is_public_network_interface(interface_name)
    THEN Outcome(400, <<>>, netplan, ifile, resolv)
    ELSE LET inv == get_interfaces IN
         IF inv.exc # "none" THEN Outcome(500, inv.trace, netplan, ifile, resolv)
         ELSE IF interface_name \notin inv.names
         THEN Outcome(404, inv.trace, netplan, ifile, resolv)
         ELSE Outcome(200, inv.trace, netplan, ifile, resolv)

LinkDown(n, check) == Step("ip_link_down", "ip", check, n, <<>>)
LinkUp(n, check) == Step("ip_link_up", "ip", check, n, <<>>)

\* The ip-command fallback of restart: down unchecked, up checked.
link_cycle(n) == run_steps(<< LinkDown(n, FALSE), LinkUp(n, TRUE) >>)

\* A restart without the handler: the exception of the try block leaves
\* the endpoint.
with_link_fallback_missing(first, n) == first

\* A try block of restart followed by its handler of CalledProcessError
\* and FileNotFoundError, which runs the link cycle.
with_link_fallback(first, n) ==
    IF first.exc = "none" THEN first
    ELSE LET fb == link_cycle(n)
         IN [trace |-> first.trace \o fb.trace, exc |-> fb.exc]

\* The netplan branch of restart: down, apply (generate in a container,
\* unchecked and with every exception swallowed), up.
restart_netplan_steps(n) ==
    LET down == run_steps(<< LinkDown(n, TRUE) >>) IN
    IF down.exc # "none" THEN down
    ELSE LET mid == IF ~is_container
                    THEN run_steps(<< Step("netplan_apply", "netplan", TRUE, "", <<>>) >>)
                    ELSE [trace |-> run_steps(<< Step("netplan_generate", "netplan",
                                                      FALSE, "", <<>>) >>).trace,
                          exc |-> "none"]
         IN IF mid.exc # "none"
            THEN [trace |-> down.trace \o mid.trace, exc |-> mid.exc]
            ELSE LET up == run_steps(<< LinkUp(n, TRUE) >>)
                 IN [trace |-> down.trace \o mid.trace \o up.trace, exc |-> up.exc]

\* POST /network/interfaces/{interface_name}/restart.  An exception that
\* leaves the handler is a 500: CalledProcessError through the
\* HTTPException of the handler, any other as an unhandled server error.
restart_steps(n) ==
    LET r == IF config_type = "netplan"
             THEN with_link_fallback(restart_netplan_steps(n), n)
             ELSE IF config_type = "interfaces"
             THEN with_link_fallback(
                      run_steps(<< Step("ifdown", "ifupdown", FALSE, n, <<>>),
                                   Step("ifup", "ifupdown", TRUE, n, <<>>) >>), n)
             ELSE IF config_type = "networkmanager"
             THEN with_link_fallback(
                      run_steps(<< Step("nmcli_down", "nmcli", FALSE, n, <<>>),
                                   Step("nmcli_up", "nmcli", TRUE, n, <<>>) >>), n)
             ELSE link_cycle(n)
    IN Outcome(IF r.exc = "none" THEN 200 ELSE 500, r.trace, netplan, ifile, resolv)

\* A restart handler without the classifier guard.
restart_interface_unguarded(interface_name) == restart_steps(interface_name)

restart_interface(interface_name) ==
    IF ~is_public_network_interface(interface_name)
    THEN Outcome(400, <<>>, netplan, ifile, resolv)
    ELSE restart_steps(interface_name)

\* An enable whose netplan re-apply is a primary step: its failure fails
\* the request.
enable_interface_checked_apply(interface_name) ==
    IF ~is_public_network_interface(interface_name)
    THEN Outcome(400, <<>>, netplan, ifile, resolv)
    ELSE LET r == run_steps(<< LinkUp(interface_name, TRUE) >>
                            \o (IF config_type = "netplan"
                                THEN << Step("netplan_apply", "netplan", TRUE, "", <<>>) >>
                                ELSE <<>>))
         IN Outcome(IF r.exc = "none" THEN 200 ELSE 500, r.trace, netplan, ifile, resolv)

\* POST /network/interfaces/{interface_name}/enable: link up, then on the
\* netplan backend `netplan apply`, unchecked, a missing tool ignored.
enable_interface(interface_name) ==
    IF ~is_public_network_interface(interface_name)
    THEN Outcome(400, <<>>, netplan, ifile, resolv)
    ELSE LET up == run_steps(<< LinkUp(interface_name, TRUE) >>) IN
         IF up.exc # "none" THEN Outcome(500, up.trace, netplan, ifile, resolv)
         ELSE IF config_type = "netplan"
         THEN Outcome(200,
                      up.trace \o run_steps(<< Step("netplan_apply", "netplan", FALSE,
                                                    "", <<>>) >>).trace,
                      netplan, ifile, resolv)
         ELSE Outcome(200, up.trace, netplan, ifile, resolv)

\* POST /network/interfaces/{interface_name}/disable
disable_interface(interface_name) ==
    IF ~is_public_network_interface(interface_name)
    THEN Outcome(400, <<>>, netplan, ifile, resolv)
    ELSE LET down == run_steps(<< LinkDown(interface_name, TRUE) >>)
         IN Outcome(IF down.exc = "none" THEN 200 ELSE 500, down.trace,
                    netplan, ifile, resolv)

\* POST /network/apply-config: always answers 200; the outcome of the
\* command is the success flag of the body, not modelled as a status.
apply_network_config ==
    LET r == IF config_type = "netplan"
             THEN IF is_container
                  THEN run_steps(<< Step("netplan_generate", "netplan", TRUE, "", <<>>) >>)
                  ELSE run_steps(<< Step("netplan_apply", "netplan", TRUE, "", <<>>) >>)
             ELSE IF config_type = "interfaces"
             THEN LET a == run_steps(<< Step("systemctl_restart_networking", "systemctl",
                                             TRUE, "", <<>>) >>)
                  IN IF a.exc = "none" THEN a
                     ELSE LET b == run_steps(<< Step("initd_networking_restart", "initd",
                                                     TRUE, "", <<>>) >>)
                          IN [trace |-> a.trace \o b.trace, exc |-> b.exc]
             ELSE IF config_type = "networkmanager"
             THEN run_steps(<< Step("systemctl_restart_NetworkManager", "systemctl",
                                    TRUE, "", <<>>) >>)
             ELSE [trace |-> <<>>, exc |-> "none"]
    IN Outcome(200, r.trace, netplan, ifile, resolv)

(***************************************************************************)
(* HostnameStore.  Strings that the code inspects character by character   *)
(* (hosts-file lines, hostnames) are sequences of characters.  A line of   *)
(* /etc/hosts is the sequence of its whitespace-separated tokens.          *)
(***************************************************************************)
\* The strings of the hostname files, each the sequence of its characters.
S ==
    [ loopback |-> <<"1", "2", "7", ".", "0", ".", "0", ".", "1">>,
      alias |-> <<"1", "2", "7", ".", "0", ".", "1", ".", "1">>,
      alias10 |-> <<"1", "2", "7", ".", "0", ".", "1", ".", "1", "0">>,
      lan |-> <<"1", "9", "2", ".", "1", "6", "8", ".", "1", ".", "5">>,
      hash |-> <<"#">>,
      localhost |-> <<"l", "o", "c", "a", "l", "h", "o", "s", "t">>,
      localdomain |-> <<"l", "o", "c", "a", "l", "h", "o", "s", "t", ".", "l", "o", "c", "a", "l", "d", "o", "m", "a", "i", "n">>,
      oldhost |-> <<"o", "l", "d", "h", "o", "s", "t">>,
      nas |-> <<"n", "a", "s">>,
      web |-> <<"w", "e", "b", "-", "s", "e", "r", "v", "e", "r", "-", "0", "1">>,
      db1 |-> <<"d", "b", "1">>,
      unknown |-> <<"u", "n", "k", "n", "o", "w", "n">> ]

\* line.strip().startswith(p)
line_startswith(line, p) == line # <<>> /\ IsPrefix(p, line[1])

\* p in line, for a p without white space: p is in one of the words.
line_contains(line, p) ==
    \E t \in 1..Len(line) :
        \E i \in 0..(Len(line[t]) - Len(p)) : SubSeq(line[t], i + 1, i + Len(p)) = p

\* f"127.0.1.1\t{new_hostname}"
alias_line(new_hostname) == << S.alias, new_hostname >>

\* The loop of _update_hosts_file, lines 624-632: what one line contributes
\* to new_lines.
hosts_keep(line, new_hostname) ==
    IF line_startswith(line, S.alias) THEN << alias_line(new_hostname) >>
    ELSE IF ~(line_startswith(line, S.loopback) /\ line_contains(line, S.localhost))
    THEN IF ~line_contains(line, S.alias) THEN << line >> ELSE <<>>
    ELSE <<>>

RECURSIVE hosts_loop(_, _)
hosts_loop(lines, new_hostname) ==
    IF lines = <<>> THEN <<>>
    ELSE hosts_keep(Head(lines), new_hostname) \o hosts_loop(Tail(lines), new_hostname)

\* The content _update_hosts_file writes, lines 618-646.
new_hosts_lines(h, new_hostname) ==
    IF h.exists
    THEN LET kept == hosts_loop(h.lines, new_hostname)
             hostname_updated == \E i \in 1..Len(h.lines) :
                                     line_startswith(h.lines[i], S.alias)
             with_alias == IF hostname_updated THEN kept
                           ELSE Append(kept, alias_line(new_hostname))
             localhost_exists == \E i \in 1..Len(with_alias) :
                                     /\ line_contains(with_alias[i], S.loopback)
                                     /\ line_contains(with_alias[i], S.localhost)
         IN IF localhost_exists THEN with_alias
            ELSE << << S.loopback, S.localhost >> >> \o with_alias
    ELSE << << S.loopback, S.localhost >>, alias_line(new_hostname) >>

\* NetworkManager._update_hosts_file: every exception (here: the file
\* cannot be written) is swallowed and leaves the file as it is.
update_hosts_file(h, new_hostname) ==
    IF "write_hosts" \in failing
    THEN [hosts |-> h, trace |-> <<Ev("write_hosts", "", <<>>, "fail")>>]
    ELSE [hosts |-> [exists |-> TRUE, lines |-> new_hosts_lines(h, new_hostname)],
          trace |-> <<Ev("write_hosts", "", <<>>, "ok")>>]

\* NetworkManager.get_hostname: hostnamectl, then the hostname command,
\* then /etc/hostname, then "unknown".  The handler around the hostname
\* command catches CalledProcessError only.
get_hostname ==
    LET a == run_steps(<< Step("hostnamectl_get", "hostnamectl", TRUE, "", <<>>) >>) IN
    IF a.exc = "none" THEN [value |-> live_hostname, exc |-> "none", trace |-> a.trace]
    ELSE
    LET b == run_steps(<< Step("hostname_cmd", "hostname", TRUE, "", <<>>) >>) IN
    IF b.exc = "none"
    THEN [value |-> live_hostname, exc |-> "none", trace |-> a.trace \o b.trace]
    ELSE IF b.exc = "FNF"
    THEN [value |-> <<>>, exc |-> "FNF", trace |-> a.trace \o b.trace]
    ELSE IF ~hostname_file.exists
    THEN [value |-> S.unknown, exc |-> "none", trace |-> a.trace \o b.trace]
    ELSE IF "read_hostname_file" \in failing
    THEN [value |-> S.unknown, exc |-> "none",
          trace |-> a.trace \o b.trace \o <<Ev("read_hostname_file", "", <<>>, "fail")>>]
    ELSE [value |-> hostname_file.text, exc |-> "none",
          trace |-> a.trace \o b.trace \o <<Ev("read_hostname_file", "", <<>>, "ok")>>]

HostOutcome(status, value, trace, live, file, h) ==
    [status |-> status, value |-> value, trace |-> trace, live |-> live,
     hostname_file |-> file, hosts |-> h]

\* Variant of set_hostname in which a failed write of /etc/hostname is
\* fatal whatever hostnamectl did.
set_hostname_write_always_fatal(new_hostname) ==
    LET svc == run_steps(<< Step("hostnamectl_set", "hostnamectl", TRUE, "",
                                 new_hostname) >>)
        hostname_set_success == svc.exc = "none"
        live == IF hostname_set_success THEN new_hostname ELSE live_hostname
        write_ok == "write_hostname_file" \notin failing
        wr == <<Ev("write_hostname_file", "", new_hostname,
                   IF write_ok THEN "ok" ELSE "fail")>>
        file == IF write_ok THEN [exists |-> TRUE, text |-> new_hostname]
                ELSE hostname_file
    IN IF ~write_ok
       THEN HostOutcome(500, <<>>, svc.trace \o wr, live, file, hosts)
       ELSE LET u == update_hosts_file(hosts, new_hostname)
            IN HostOutcome(200, new_hostname, svc.trace \o wr \o u.trace, live, file,
                           u.hosts)

\* NetworkManager.set_hostname: hostnamectl set-hostname, then the write
\* of /etc/hostname (fatal only when hostnamectl failed too), then the
\* update of /etc/hosts (never fatal).
set_hostname(new_hostname) ==
    LET svc == run_steps(<< Step("hostnamectl_set", "hostnamectl", TRUE, "",
                                 new_hostname) >>)
        hostname_set_success == svc.exc = "none"
        live == IF hostname_set_success THEN new_hostname ELSE live_hostname
        write_ok == "write_hostname_file" \notin failing
        wr == <<Ev("write_hostname_file", "", new_hostname,
                   IF write_ok THEN "ok" ELSE "fail")>>
        file == IF write_ok THEN [exists |-> TRUE, text |-> new_hostname]
                ELSE hostname_file
    IN IF ~write_ok /\ ~hostname_set_success
       THEN HostOutcome(500, <<>>, svc.trace \o wr, live, file, hosts)
       ELSE LET u == update_hosts_file(hosts, new_hostname)
            IN HostOutcome(200, new_hostname, svc.trace \o wr \o u.trace, live, file,
                           u.hosts)

\* str.lower() on the upper-case letters the payloads use.
lower(s) ==
    LET LowerOf == ("M" :> "m") @@ ("H" :> "h") @@ ("W" :> "w") @@ ("S" :> "s")
    IN [i \in 1..Len(s) |-> IF s[i] \in DOMAIN LowerOf THEN LowerOf[s[i]] ELSE s[i]]

\* ^[a-z0-9]([a-z0-9\-]{0,61}[a-z0-9])?$ up to the end of the string.
hostname_body_matches(s) ==
    LET n == Len(s)
        alnum == {"a","b","c","d","e","f","g","h","i","j","k","l","m",
                  "n","o","p","q","r","s","t","u","v","w","x","y","z"} \cup Digits
    IN /\ n >= 1
       /\ s[1] \in alnum
       /\ n > 1 => /\ n - 2 <= 61
                   /\ s[n] \in alnum
                   /\ \A i \in 2..(n - 1) : s[i] \in alnum \cup {"-"}

\* re.match with that pattern: $ also matches before a final newline.
hostname_matches(s) ==
    \/ hostname_body_matches(s)
    \/ s # <<>> /\ s[Len(s)] = "\n" /\ hostname_body_matches(SubSeq(s, 1, Len(s) - 1))

\* Variant of POST /hostname that matches the stripped payload without
\* lower-casing it.
api_set_hostname_case_sensitive(raw) ==
    IF raw = <<>> \/ Len(strip(raw)) = 0
    THEN HostOutcome(400, <<>>, <<>>, live_hostname, hostname_file, hosts)
    ELSE LET hostname == strip(raw) IN
         IF ~hostname_matches(hostname)
         THEN HostOutcome(400, <<>>, <<>>, live_hostname, hostname_file, hosts)
         ELSE LET cur == get_hostname IN
              IF cur.exc # "none"
              THEN HostOutcome(500, <<>>, cur.trace, live_hostname, hostname_file, hosts)
              ELSE IF cur.value = hostname
              THEN HostOutcome(200, hostname, cur.trace, live_hostname, hostname_file,
                               hosts)
              ELSE LET o == set_hostname(hostname)
                   IN [o EXCEPT !.trace = cur.trace \o o.trace]

\* POST /hostname: validation, read-back of the current hostname, set.
api_set_hostname(raw) ==
    IF raw = <<>> \/ Len(strip(raw)) = 0
    THEN HostOutcome(400, <<>>, <<>>, live_hostname, hostname_file, hosts)
    ELSE LET hostname == lower(strip(raw)) IN
         IF ~hostname_matches(hostname)
         THEN HostOutcome(400, <<>>, <<>>, live_hostname, hostname_file, hosts)
         ELSE LET cur == get_hostname IN
              IF cur.exc # "none"
              THEN HostOutcome(500, <<>>, cur.trace, live_hostname, hostname_file, hosts)
              ELSE IF cur.value = hostname
              THEN HostOutcome(200, hostname, cur.trace, live_hostname, hostname_file,
                               hosts)
              ELSE LET o == set_hostname(hostname)
                   IN [o EXCEPT !.trace = cur.trace \o o.trace]

\* GET /hostname: an exception leaving get_hostname is a server error.
api_get_hostname ==
    LET g == get_hostname
    IN HostOutcome(IF g.exc = "none" THEN 200 ELSE 500, g.value, g.trace,
                   live_hostname, hostname_file, hosts)

(***************************************************************************)
(* ConfigTypeDetector.                                                     *)
(***************************************************************************)
\* Variant of detect_network_config_type that looks for the interfaces
\* file before the NetworkManager directory.
detect_interfaces_first(netplan_dir, nm_dir, interfaces_file, networkd_dir) ==
    IF netplan_dir.exists /\ netplan_dir.listing # {} THEN "netplan"
    ELSE IF interfaces_file THEN "interfaces"
    ELSE IF nm_dir THEN "networkmanager"
    ELSE IF networkd_dir THEN "systemd-networkd"
    ELSE "unknown"

\* NetworkManager.detect_network_config_type.  netplan_dir is /etc/netplan:
\* whether it exists and what os.listdir returns; the other arguments are
\* os.path.exists of /etc/NetworkManager/system-connections,
\* /etc/network/interfaces and /etc/systemd/network.
detect_network_config_type(netplan_dir, nm_dir, interfaces_file, networkd_dir) ==
    IF netplan_dir.exists /\ netplan_dir.listing # {} THEN "netplan"
    ELSE IF nm_dir THEN "networkmanager"
    ELSE IF interfaces_file THEN "interfaces"
    ELSE IF networkd_dir THEN "systemd-networkd"
    ELSE "unknown"

(***************************************************************************)
(* Actions: one per operation.  Each records the request and its outcome   *)
(* in last, with the store and the interfaces file as they were before.    *)
(***************************************************************************)
NoConfig ==
    [is_dhcp |-> FALSE, ip_address |-> "", netmask |-> <<>>, gateway |-> "",
     dns_servers |-> <<>>]

\* Variant of Finish that detects the backend kind again after every
\* operation.
Finish_redetecting(op, name, config, o) ==
    /\ nops > 0
    /\ netplan' = o.netplan
    /\ glob_order' \in GlobOrders(glob_order, o.netplan,
                                   {o.trace[i].n : i \in {j \in 1..Len(o.trace) :
                                       o.trace[j].c = "unlink" /\ o.trace[j].r = "ok"}})
    /\ ifile' = o.ifile
    /\ resolv' = o.resolv
    /\ last' = [op |-> op, name |-> name, cfg |-> config, status |-> o.status,
                trace |-> o.trace, pre |-> netplan, preIfile |-> ifile,
                preResolv |-> resolv, prevOp |-> last.op, prevName |-> last.name,
                hostname |-> <<>>, value |-> <<>>, preLive |-> live_hostname,
                preHostnameFile |-> hostname_file, preHosts |-> hosts]
    /\ nops' = nops - 1
    /\ config_type' = detect_network_config_type(
                          [exists |-> TRUE,
                           listing |-> {f \in Files : Exists(o.netplan[f])}],
                          config_type = "networkmanager", o.ifile.exists,
                          config_type = "systemd-networkd")
    /\ UNCHANGED <<is_container, absent, failing, inventory,
                   live_hostname, hostname_file, hosts, workers>>

Finish(op, name, config, o) ==
    /\ nops > 0
    /\ netplan' = o.netplan
    /\ glob_order' \in GlobOrders(glob_order, o.netplan,
                                   {o.trace[i].n : i \in {j \in 1..Len(o.trace) :
                                       o.trace[j].c = "unlink" /\ o.trace[j].r = "ok"}})
    /\ ifile' = o.ifile
    /\ resolv' = o.resolv
    /\ last' = [op |-> op, name |-> name, cfg |-> config, status |-> o.status,
                trace |-> o.trace, pre |-> netplan, preIfile |-> ifile,
                preResolv |-> resolv, prevOp |-> last.op, prevName |-> last.name,
                hostname |-> <<>>, value |-> <<>>, preLive |-> live_hostname,
                preHostnameFile |-> hostname_file, preHosts |-> hosts]
    /\ nops' = nops - 1
    /\ UNCHANGED <<config_type, is_container, absent, failing, inventory,
                   live_hostname, hostname_file, hosts, workers>>

\* GET /network/netplan/files.  One entry per file glob yields: the file
\* name, the interfaces of the document and whether the entry carries an
\* error.  The handler of a failed read or parse calls config_file.stat()
\* again; when that raises too, the exception reaches the outer handler
\* and the request ends with 500.
get_netplan_files(store) ==
    LET listed == glob_order
        loaded(d) == CanRead(d) /\ d.form \in {"net", "empty"}
        entries == [i \in 1..Len(listed) |->
                       IF loaded(store[listed[i]])
                       THEN Ev("file_info", listed[i], DOMAIN store[listed[i]].eth, "ok")
                       ELSE Ev("file_info", listed[i], {}, "fail")]
    IN IF \E i \in 1..Len(listed) : store[listed[i]].mode = "dangling"
       THEN Outcome(500, <<>>, store, ifile, resolv)
       ELSE Outcome(200, entries, store, ifile, resolv)

\* A direct call of NetworkManager.configure_interface.
MgrConfigure(name, config) ==
    /\ config_type = "netplan" => name \in StoreNames
    /\ Finish("mgr_configure", name, config, manager_configure_interface(name, config))

\* A direct call of NetworkManager._apply_ip_directly.  status is 200 when
\* the method returns and 500 when an exception leaves it.
MgrApplyDirectly(name, config) ==
    LET d == apply_ip_directly(name, config, resolv)
    IN Finish("mgr_apply_directly", name, config,
              Outcome(IF d.exc = "none" THEN 200 ELSE 500, d.trace, netplan, ifile,
                      d.resolv))

\* A direct call of NetworkManager._update_dns_servers, which returns
\* nothing and passes over every exception of the rewrite.
MgrUpdateDns(dns_servers) ==
    LET ok == "write_resolv" \notin failing
    IN Finish("mgr_update_dns", "", [NoConfig EXCEPT !.dns_servers = dns_servers],
              Outcome(200,
                      <<Ev("write_resolv", "", dns_servers, IF ok THEN "ok" ELSE "fail")>>,
                      netplan, ifile,
                      IF ok THEN update_dns_servers(resolv, dns_servers) ELSE resolv))

\* A direct call of NetworkManager._cleanup_netplan_files (remove).
MgrCleanup(name) ==
    LET cl == cleanup_netplan_files(netplan, name)
    IN Finish("mgr_cleanup", name, NoConfig, Outcome(200, cl.trace, cl.store, ifile, resolv))

ApiConfigure(name, config) ==
    Finish("configure", name, config, configure_interface(name, config))

ApiCleanup(name) ==
    Finish("cleanup", name, NoConfig, cleanup_netplan_interface(name))

ApiGet(name) ==
    Finish("get", name, NoConfig, get_interface(name))

ApiNetplanFiles ==
    Finish("netplan_files", "", NoConfig, get_netplan_files(netplan))

ApiRestart(name) ==
    Finish("restart", name, NoConfig, restart_interface(name))

ApiEnable(name) ==
    Finish("enable", name, NoConfig, enable_interface(name))

ApiDisable(name) ==
    Finish("disable", name, NoConfig, disable_interface(name))

ApiApplyConfig ==
    Finish("apply_config", "", NoConfig, apply_network_config)

\* An operation of the hostname store: records the hostname asked for and
\* the value returned.
FinishHost(op, hostname, o) ==
    /\ nops > 0
    /\ live_hostname' = o.live
    /\ hostname_file' = o.hostname_file
    /\ hosts' = o.hosts
    /\ last' = [op |-> op, name |-> "", cfg |-> NoConfig, status |-> o.status,
                trace |-> o.trace, pre |-> netplan, preIfile |-> ifile,
                preResolv |-> resolv, prevOp |-> last.op, prevName |-> last.name,
                hostname |-> hostname, value |-> o.value, preLive |-> live_hostname,
                preHostnameFile |-> hostname_file, preHosts |-> hosts]
    /\ nops' = nops - 1
    /\ UNCHANGED <<config_type, is_container, absent, failing, netplan, ifile, resolv,
                   inventory, workers, glob_order>>

\* A direct call of NetworkManager.get_hostname; status 500 stands for an
\* exception leaving the method.
MgrGetHostname ==
    LET g == get_hostname
    IN FinishHost("mgr_get_hostname", <<>>,
                  HostOutcome(IF g.exc = "none" THEN 200 ELSE 500, g.value, g.trace,
                              live_hostname, hostname_file, hosts))

\* A direct call of NetworkManager.set_hostname.
MgrSetHostname(new_hostname) ==
    FinishHost("mgr_set_hostname", new_hostname, set_hostname(new_hostname))

ApiGetHostname == FinishHost("get_hostname", <<>>, api_get_hostname)

ApiSetHostname(raw) == FinishHost("set_hostname", raw, api_set_hostname(raw))

(***************************************************************************)
(* Initial states.                                                         *)
(***************************************************************************)
NoLast ==
    [op |-> "none", name |-> "", cfg |-> NoConfig, status |-> 0, trace |-> <<>>,
     pre |-> [f \in Files |-> NoFile], preIfile |-> [exists |-> FALSE, lines |-> <<>>],
     preResolv |-> <<>>, prevOp |-> "none", prevName |-> "",
     hostname |-> <<>>, value |-> <<>>, preLive |-> <<>>, preHostnameFile |-> [exists |-> FALSE, text |-> <<>>],
     preHosts |-> [exists |-> FALSE, lines |-> <<>>]]

\* The hostname files of a freshly installed host.
InitHostnameFile == [exists |-> TRUE, text |-> S.oldhost]

InitHostsFile ==
    [exists |-> TRUE,
     lines |-> << << S.loopback, S.localhost >>, << S.alias, S.oldhost >> >>]

InitResolv == << <<"search", " ", "lan">>, <<"nameserver", " ", "1.1.1.1">> >>

Both == ("eth0" :> OldStatic) @@ ("eth1" :> OldDhcp)

\* The stores before the first operation.  TargetDocs: what 01-eth0.yaml
\* may hold; CloudDocs: what 50-cloud-init.yaml may hold.
InitStores ==
    LET TargetDocs ==
            { NoFile,
              NetDoc("eth0" :> OldStatic, "version2", "ok", "orig", "0644"),
              NetDoc(Both, "version2", "ok", "orig", "0644"),
              NetDoc("eth1" :> OldDhcp, "version2", "ok", "orig", "0644"),
              OtherDoc("empty", "ok"),
              NetDoc("eth0" :> OldStatic, "version2", "locked", "orig", "0644") }
        CloudDocs ==
            { NoFile,
              NetDoc("eth0" :> OldDhcp, "version2+renderer", "ok", "orig", "0644"),
              NetDoc(Both, "version2+renderer", "ok", "orig", "0644"),
              NetDoc("eth1" :> OldDhcp, "version2+renderer", "ok", "orig", "0644"),
              OtherDoc("error", "ok"),
              OtherDoc("netnull", "ok"),
              NetDoc("eth0" :> OldDhcp, "version2+renderer", "locked", "orig", "0644"),
              NetDoc(Both, "version2+renderer", "locked", "orig", "0644"),
              NetDoc("eth0" :> OldDhcp, "version2+renderer", "unreadable", "orig",
                     "0644") }
    IN { [f \in Files |->
             CASE f = "01-eth0.yaml" -> t
               [] f = "50-cloud-init.yaml" -> c
               [] f = "01-eth1.yaml" -> o
               [] OTHER -> y] :
         t \in TargetDocs, c \in CloudDocs,
         o \in {NoFile, NetDoc("eth1" :> OldDhcp, "version2", "ok", "dump", "0600")},
         y \in {NoFile, NetDoc("eth0" :> OldStatic, "version2", "ok", "orig", "0644")} }

NoInterfacesFile == [exists |-> FALSE, lines |-> <<>>]

\* Contents of /etc/network/interfaces before the first operation.
InitInterfaces ==
    { NoInterfacesFile,
      [exists |-> TRUE,
       lines |-> << ILine("auto", "lo", <<>>),
                    ILine("iface", "lo", <<"inet", "loopback">>),
                    ILine("blank", "", <<>>),
                    ILine("auto", "eth0", <<>>),
                    ILine("iface", "eth0", <<"inet", "static">>),
                    ILine("opt", "", <<"address", "192.168.1.10">>),
                    ILine("opt", "", <<"netmask", "255", "255", "255", "0">>),
                    ILine("opt", "", <<"gateway", "192.168.1.1">>) >>],
      [exists |-> TRUE,
       lines |-> << ILine("other", "", <<"# managed by hand">>),
                    ILine("auto", "eth0", <<>>),
                    ILine("iface", "eth0", <<"inet", "dhcp">>) >>],
      [exists |-> TRUE,
       lines |-> << ILine("auto", "lo", <<>>),
                    ILine("iface", "lo", <<"inet", "loopback">>),
                    ILine("blank", "", <<>>),
                    ILine("auto", "eth10", <<>>),
                    ILine("iface", "eth10", <<"inet", "static">>),
                    ILine("opt", "", <<"address", "172.16.0.10">>),
                    ILine("opt", "", <<"netmask", "255", "255", "255", "0">>),
                    ILine("blank", "", <<>>),
                    ILine("auto", "eth1", <<>>),
                    ILine("iface", "eth1", <<"inet", "dhcp">>) >>] }


\* Environments with at most MaxFaults faults among the given tools and
\* commands: a missing tool or a command that exits non-zero.
Environments(tools, cmds) ==
    { e \in (SUBSET tools) \X (SUBSET cmds) :
          Cardinality(e[1]) + Cardinality(e[2]) <= MaxFaults }

\* The netplan store: direct calls of configure and remove on a host whose
\* tools all work.
InitStore ==
    /\ config_type = "netplan"
    /\ is_container = FALSE
    /\ absent = {}
    /\ failing = {}
    /\ netplan \in InitStores
    /\ ifile = NoInterfacesFile
    /\ resolv = InitResolv
    /\ inventory = {"eth0", "eth1"}
    /\ last = NoLast
    /\ workers = <<>>
    /\ glob_order \in GlobOrders(<<>>, netplan, {})
    /\ live_hostname = S.oldhost
    /\ hostname_file = InitHostnameFile
    /\ hosts = InitHostsFile
    /\ nops = MaxOps

NextStore ==
    \/ \E name \in StoreNames, config \in Configs : MgrConfigure(name, config)
    \/ \E name \in StoreNames : MgrCleanup(name)

SpecStore == InitStore /\ [][NextStore]_vars


\* configure on the two backends that implement it, in and outside a
\* container, with failing and missing tools.  The constructor detects
\* "interfaces" only when /etc/network/interfaces exists, and no operation
\* removes that file.
InitConfigure ==
    /\ config_type \in {"netplan", "interfaces"}
    /\ is_container \in BOOLEAN
    /\ \E e \in Environments({"ip", "netplan", "ifupdown", "dhclient"},
                             {"netplan_generate", "netplan_apply", "ifup", "ip_link_up",
                              "ip_addr_add", "ip_route_add", "dhclient"}) :
           absent = e[1] /\ failing = e[2]
    /\ netplan = [f \in Files |->
                     IF config_type = "netplan" /\ f = "50-cloud-init.yaml"
                     THEN NetDoc(Both, "version2+renderer", "ok", "orig", "0644")
                     ELSE NoFile]
    /\ ifile \in (IF config_type = "interfaces" THEN InitInterfaces \ {NoInterfacesFile}
                  ELSE {NoInterfacesFile})
    /\ resolv = InitResolv
    /\ inventory = {"eth0", "eth1"}
    /\ last = NoLast
    /\ workers = <<>>
    /\ glob_order \in GlobOrders(<<>>, netplan, {})
    /\ live_hostname = S.oldhost
    /\ hostname_file = InitHostnameFile
    /\ hosts = InitHostsFile
    /\ nops = MaxOps

NextConfigure ==
    \E name \in StoreNames, config \in Configs : MgrConfigure(name, config)

SpecConfigure == InitConfigure /\ [][NextConfigure]_vars

ApiNames == {"eth0", "enp0s3", "lo", "docker0"}

\* The HTTP interface on every backend kind.
Init ==
    /\ config_type \in {"netplan", "networkmanager", "interfaces", "systemd-networkd",
                        "unknown"}
    /\ is_container \in BOOLEAN
    /\ \E e \in Environments({"ip", "netplan", "ifupdown", "nmcli", "systemctl"},
                             {"ip_addr_show", "ip_link_down", "ip_link_up",
                              "netplan_apply", "ifup", "nmcli_up",
                              "systemctl_restart_networking"}) :
           absent = e[1] /\ failing = e[2]
    /\ netplan = [f \in Files |->
                     IF config_type = "netplan" /\ f = "50-cloud-init.yaml"
                     THEN NetDoc(Both, "version2+renderer", "ok", "orig", "0644")
                     ELSE NoFile]
    /\ ifile = IF config_type = "interfaces"
               THEN [exists |-> TRUE,
                     lines |-> << ILine("auto", "eth0", <<>>),
                                  ILine("iface", "eth0", <<"inet", "dhcp">>) >>]
               ELSE NoInterfacesFile
    /\ resolv = InitResolv
    /\ inventory = {"eth0", "lo", "docker0"}
    /\ last = NoLast
    /\ workers = <<>>
    /\ glob_order \in GlobOrders(<<>>, netplan, {})
    /\ live_hostname = S.oldhost
    /\ hostname_file = InitHostnameFile
    /\ hosts = InitHostsFile
    /\ nops = MaxApiOps

Next ==
    \/ \E name \in ApiNames, config \in {CfgStatic, CfgDhcp} : ApiConfigure(name, config)
    \/ \E name \in ApiNames : ApiCleanup(name)
    \/ \E name \in ApiNames : ApiGet(name)
    \/ \E name \in ApiNames : ApiRestart(name)
    \/ \E name \in ApiNames : ApiEnable(name)
    \/ \E name \in ApiNames : ApiDisable(name)
    \/ ApiApplyConfig

Spec == Init /\ [][Next]_vars

\* configure called directly and restart through its endpoint, on the two
\* backends that implement configure, with failing and missing tools.
NextFallback ==
    \/ \E name \in StoreNames, config \in Configs : MgrConfigure(name, config)
    \/ \E name \in StoreNames : ApiRestart(name)

SpecFallback == InitConfigure /\ [][NextFallback]_vars

\* DirectIPApplier called directly, with failing and missing tools and a
\* resolver file that cannot be rewritten.
InitApply ==
    /\ config_type = "netplan"
    /\ is_container \in BOOLEAN
    /\ \E e \in Environments({"ip", "dhclient"},
                             {"ip_link_up", "ip_addr_flush", "ip_addr_add",
                              "ip_route_del", "ip_route_add", "dhclient",
                              "write_resolv"}) :
           absent = e[1] /\ failing = e[2]
    /\ netplan = [f \in Files |-> NoFile]
    /\ ifile = NoInterfacesFile
    /\ resolv = InitResolv
    /\ inventory = {"eth0", "eth1"}
    /\ last = NoLast
    /\ workers = <<>>
    /\ glob_order \in GlobOrders(<<>>, netplan, {})
    /\ live_hostname = S.oldhost
    /\ hostname_file = InitHostnameFile
    /\ hosts = InitHostsFile
    /\ nops = MaxOps

NextApply ==
    \E name \in StoreNames, config \in Configs : MgrApplyDirectly(name, config)

SpecApply == InitApply /\ [][NextApply]_vars

\* GET /network/netplan/files on stores that hold documents which do not
\* parse, cannot be read, or are links to a missing target.
InitListing ==
    /\ config_type = "netplan"
    /\ is_container = FALSE
    /\ absent = {}
    /\ failing = {}
    /\ \E st \in InitStores, m \in {"ok", "unreadable", "dangling"},
          g \in {"empty", "error", "netnull"} :
           netplan = [st EXCEPT !["01-eth1.yaml"] =
                                    IF Exists(@) THEN st["01-eth1.yaml"]
                                    ELSE OtherDoc(g, m)]
    /\ ifile = NoInterfacesFile
    /\ resolv = InitResolv
    /\ inventory = {"eth0", "eth1"}
    /\ last = NoLast
    /\ workers = <<>>
    /\ glob_order \in GlobOrders(<<>>, netplan, {})
    /\ live_hostname = S.oldhost
    /\ hostname_file = InitHostnameFile
    /\ hosts = InitHostsFile
    /\ nops = MaxOps

NextListing == ApiNetplanFiles

SpecListing == InitListing /\ [][NextListing]_vars

\* The resolver file rewritten directly: prior files with indented
\* nameserver lines, trailing white space, comments, blank lines and a
\* nameserver line without an address; lists of servers whose entries are
\* addresses, the empty string, a blank, an address followed by a blank and
\* two addresses in one entry (the payload of the API is not validated).
InitResolver ==
    /\ config_type = "netplan"
    /\ is_container = FALSE
    /\ absent = {}
    /\ failing \in {{}, {"write_resolv"}}
    /\ netplan = [f \in Files |-> NoFile]
    /\ ifile = NoInterfacesFile
    /\ resolv \in { <<>>,
                    InitResolv,
                    << <<"options", " ", "ndots:2", " ", " ">>,
                       <<" ", " ", "nameserver", " ", "1.1.1.1">>,
                       <<"#", " ", "nameserver", " ", "4.4.4.4">>,
                       <<>>,
                       <<"nameserver", "\t", "9.9.9.9", " ">> >>,
                    << <<"nameserver">>, <<"search", " ", "lan">> >> }
    /\ inventory = {"eth0"}
    /\ last = NoLast
    /\ workers = <<>>
    /\ glob_order \in GlobOrders(<<>>, netplan, {})
    /\ live_hostname = S.oldhost
    /\ hostname_file = InitHostnameFile
    /\ hosts = InitHostsFile
    /\ nops = MaxOps

NextResolver ==
    \E k \in 0..MaxServers :
        \E L \in [1..k -> {"8.8.8.8", "1.1.1.1", "", " ", "8.8.8.8 ", "8.8.8.8 1.1.1.1"}] :
        MgrUpdateDns(L)

SpecResolver == InitResolver /\ [][NextResolver]_vars

\* The hostname store: direct calls of get_hostname and set_hostname.
\* Contents of /etc/hosts before the first operation: no file; no, one,
\* two alias lines; a loopback line with further aliases; a loopback line
\* that is commented out; an address that begins like the alias address.
InitHostname ==
    /\ config_type = "netplan"
    /\ is_container \in BOOLEAN
    /\ \E e \in Environments({"hostnamectl", "hostname"},
                             {"hostnamectl_get", "hostnamectl_set", "hostname_cmd",
                              "read_hostname_file", "write_hostname_file",
                              "write_hosts"}) :
           absent = e[1] /\ failing = e[2]
    /\ netplan = [f \in Files |-> NoFile]
    /\ ifile = NoInterfacesFile
    /\ resolv = InitResolv
    /\ inventory = {"eth0"}
    /\ last = NoLast
    /\ workers = <<>>
    /\ glob_order \in GlobOrders(<<>>, netplan, {})
    /\ nops = MaxOps
    /\ live_hostname = S.oldhost
    /\ hostname_file \in {InitHostnameFile, [exists |-> FALSE, text |-> <<>>]}
    /\ hosts \in
           { [exists |-> FALSE, lines |-> <<>>],
             [exists |-> TRUE, lines |-> << << S.loopback, S.localhost >> >>],
             InitHostsFile,
             [exists |-> TRUE,
              lines |-> << << S.loopback, S.localhost, S.localdomain >>,
                           << S.alias, S.oldhost >>, << S.alias, S.nas >>,
                           << S.lan, S.nas >> >>],
             [exists |-> TRUE,
              lines |-> << << S.hash, S.loopback, S.localhost >>, << S.lan, S.nas >> >>],
             [exists |-> TRUE,
              lines |-> << << S.loopback, S.localhost >>, << S.alias10, S.nas >>,
                           << S.hash, S.alias, S.oldhost >> >>] }

NextHostname ==
    \/ MgrGetHostname
    \/ \E h \in {S.web, S.db1} : MgrSetHostname(h)

SpecHostname == InitHostname /\ [][NextHostname]_vars

\* The hostname endpoints.
InitHostnameApi ==
    /\ config_type = "netplan"
    /\ is_container = FALSE
    /\ \E e \in Environments({"hostnamectl", "hostname"},
                             {"hostnamectl_get", "hostnamectl_set", "hostname_cmd",
                              "read_hostname_file", "write_hostname_file",
                              "write_hosts"}) :
           absent = e[1] /\ failing = e[2]
    /\ netplan = [f \in Files |-> NoFile]
    /\ ifile = NoInterfacesFile
    /\ resolv = InitResolv
    /\ inventory = {"eth0"}
    /\ last = NoLast
    /\ workers = <<>>
    /\ glob_order \in GlobOrders(<<>>, netplan, {})
    /\ nops = MaxApiOps
    /\ live_hostname = S.oldhost
    /\ hostname_file = InitHostnameFile
    /\ hosts = InitHostsFile

\* The request payloads of POST /hostname are as typed by the caller.
NextHostnameApi ==
    \/ ApiGetHostname
    \/ \E raw \in { <<>>,                                   \* ""
                    <<" ", " ">>,                           \* "  "
                    S.web,                                  \* "web-server-01"
                    S.oldhost,                              \* the current hostname
                    <<"M", "y", "_", "H", "o", "s", "t", "!">>,   \* "My_Host!"
                    <<"W", "e", "b", "S", "e", "r", "v", "e", "r">>,   \* "WebServer"
                    <<" ", "d", "b", "1", " ">>,   \* " db1 "
                    <<"-", "w", "e", "b">>,   \* "-web"
                    <<"w", "e", "b", "-">>,   \* "web-"
                    <<"a">>,
                    [i \in 1..63 |-> "a"],
                    [i \in 1..64 |-> "a"] } : ApiSetHostname(raw)

SpecHostnameApi == InitHostnameApi /\ [][NextHostnameApi]_vars


\* The three operations that contain a best-effort step: configure (DNS
\* rewrite of DirectIPApplier), enable (netplan re-apply) and set_hostname
\* (hosts-file update).
InitBestEffort ==
    /\ config_type \in {"netplan", "interfaces"}
    /\ is_container \in BOOLEAN
    /\ \E e \in Environments({"ip", "netplan", "hostnamectl"},
                             {"write_resolv", "write_hosts", "write_hostname_file",
                              "hostnamectl_set", "netplan_apply", "ip_link_up",
                              "ip_addr_add"}) :
           absent = e[1] /\ failing = e[2]
    /\ netplan = [f \in Files |-> NoFile]
    /\ ifile = IF config_type = "interfaces"
               THEN [exists |-> TRUE,
                     lines |-> << ILine("auto", "eth0", <<>>),
                                  ILine("iface", "eth0", <<"inet", "dhcp">>) >>]
               ELSE NoInterfacesFile
    /\ resolv = InitResolv
    /\ inventory = {"eth0", "eth1"}
    /\ last = NoLast
    /\ workers = <<>>
    /\ glob_order \in GlobOrders(<<>>, netplan, {})
    /\ nops = MaxApiOps
    /\ live_hostname = S.oldhost
    /\ hostname_file = InitHostnameFile
    /\ hosts = InitHostsFile

NextBestEffort ==
    \/ \E name \in StoreNames, config \in {CfgStatic, CfgDhcp} : MgrConfigure(name, config)
    \/ \E name \in {"eth0", "lo"} : ApiEnable(name)
    \/ \E h \in {S.web, S.db1} : MgrSetHostname(h)

SpecBestEffort == InitBestEffort /\ [][NextBestEffort]_vars

(***************************************************************************)
(* Configure requests served step by step.  The server is one process      *)
(* (uvicorn.run(app, ...)) and every handler is an `async def` without an  *)
(* await: the event loop runs a handler to its return before it starts the *)
(* next one, so the steps of two requests never interleave.  The steps of  *)
(* one call are its system calls and the commands it waits for; the states *)
(* between them are what the rest of the host sees of the call.  A request *)
(* is at                                                                   *)
(*   start    received, its handler not started                            *)
(*   glob     after the inventory query, before netplan_dir.glob("*.yaml") *)
(*   cleanup  between two files of the loop (todo: the files still to do)  *)
(*   act      after reading a document (doc) that defines its interface    *)
(*   dump     after open(config_file, "w") of the cleanup, before the dump *)
(*   write    after open(config_file, "w") of 01-<name>.yaml, before the   *)
(*            dump reaches the file at the close                           *)
(*   chmod    after the close, before os.chmod                             *)
(*   validate after os.chmod, before `netplan info`                        *)
(*   activate after `netplan info`, between two commands of the activation *)
(*   resolv   after open(resolv_conf, 'w'), before the write and the close *)
(*   done     after the return (status: the HTTP status).                  *)
(* New files get mode 0644 (umask 022).                                    *)
(***************************************************************************)
\* A handler that yields to the event loop (or runs in a thread pool, as a
\* plain `def` handler does): its request starts while another is served.
WAccept_unserialized(w) ==
    /\ workers[w].pc = "start"
    /\ LET inv == get_interfaces
           status == IF ~is_public_network_interface(workers[w].name) THEN 400
                     ELSE IF inv.exc # "none" THEN 500
                     ELSE IF workers[w].name \notin inv.names THEN 404
                     ELSE 200
       IN /\ workers' = [workers EXCEPT
                            ![w].pc = IF status = 200 THEN "glob" ELSE "done",
                            ![w].status = status]
          /\ last' = IF status = 200 THEN last
                     ELSE [NoLast EXCEPT
                              !.op = "configure", !.name = workers[w].name,
                              !.cfg = workers[w].config, !.status = status,
                              !.prevOp = last.op, !.prevName = last.name]
    /\ UNCHANGED <<config_type, is_container, absent, failing, netplan, ifile, resolv,
                   inventory, nops, live_hostname, hostname_file, hosts, glob_order>>

\* The event loop starts the handler of a request when no other handler is
\* running.  The handler answers 400 for a name that is no public interface,
\* queries the inventory (`ip -j addr show`) and answers 500 when the query
\* fails, 404 for a name that is not in the inventory.
WAccept(w) ==
    /\ workers[w].pc = "start"
    /\ \A v \in DOMAIN workers \ {w} : workers[v].pc \in {"start", "done"}
    /\ LET inv == get_interfaces
           status == IF ~is_public_network_interface(workers[w].name) THEN 400
                     ELSE IF inv.exc # "none" THEN 500
                     ELSE IF workers[w].name \notin inv.names THEN 404
                     ELSE 200
       IN /\ workers' = [workers EXCEPT
                            ![w].pc = IF status = 200 THEN "glob" ELSE "done",
                            ![w].status = status]
          /\ last' = IF status = 200 THEN last
                     ELSE [NoLast EXCEPT
                              !.op = "configure", !.name = workers[w].name,
                              !.cfg = workers[w].config, !.status = status,
                              !.prevOp = last.op, !.prevName = last.name]
    /\ UNCHANGED <<config_type, is_container, absent, failing, netplan, ifile, resolv,
                   inventory, nops, live_hostname, hostname_file, hosts, glob_order>>

\* netplan_dir.glob("*.yaml"): the directory is listed when the loop starts.
WGlob(w) ==
    /\ workers[w].pc = "glob"
    /\ workers' = [workers EXCEPT
                      ![w].pc = "cleanup",
                      ![w].todo = glob_order]
    /\ UNCHANGED <<config_type, is_container, absent, failing, netplan, ifile, resolv,
                   inventory, last, nops, live_hostname, hostname_file, hosts,
                   glob_order>>

\* open and yaml.safe_load of the next file; a file that is gone, cannot be
\* read or parsed, is empty or does not define the interface is passed over.
WRead(w) ==
    /\ workers[w].pc = "cleanup"
    /\ workers[w].todo # <<>>
    /\ LET f == Head(workers[w].todo)
           r == cleanup_one(f, netplan[f], workers[w].name)
       IN workers' = [workers EXCEPT
                         ![w] = IF r.trace = <<>>
                                THEN [workers[w] EXCEPT !.todo = Tail(@)]
                                ELSE [workers[w] EXCEPT !.pc = "act",
                                                        !.doc = netplan[f]]]
    /\ UNCHANGED <<config_type, is_container, absent, failing, netplan, ifile, resolv,
                   inventory, last, nops, live_hostname, hostname_file, hosts,
                   glob_order>>

\* config_file.unlink() of a document that defines the interface alone; an
\* unlink that raises is passed over by the handler of the loop.
WUnlink(w) ==
    /\ workers[w].pc = "act"
    /\ Cardinality(DOMAIN workers[w].doc.eth) = 1
    /\ LET f == Head(workers[w].todo)
           unlinked == Exists(netplan[f]) /\ CanUnlink(netplan[f])
       IN /\ netplan' = IF unlinked THEN [netplan EXCEPT ![f] = NoFile] ELSE netplan
          /\ glob_order' \in GlobOrders(glob_order, netplan',
                                         IF unlinked THEN {f} ELSE {})
    /\ workers' = [workers EXCEPT ![w].pc = "cleanup", ![w].todo = Tail(@)]
    /\ UNCHANGED <<config_type, is_container, absent, failing, ifile, resolv,
                   inventory, last, nops, live_hostname, hostname_file, hosts>>

\* open(config_file, "w") of a document that defines other interfaces too:
\* the file is truncated (created when it is gone), keeping its mode; an
\* open that raises is passed over by the handler of the loop.
WTruncate(w) ==
    /\ workers[w].pc = "act"
    /\ Cardinality(DOMAIN workers[w].doc.eth) > 1
    /\ LET f == Head(workers[w].todo)
           cur == netplan[f]
           opened == ~Exists(cur) \/ CanWrite(cur)
       IN /\ netplan' = IF opened
                        THEN [netplan EXCEPT
                                 ![f] = [form |-> "empty", eth |-> NoEth, rest |-> "",
                                         mode |-> "ok", text |-> "",
                                         perm |-> IF Exists(cur) THEN cur.perm
                                                  ELSE "0644"]]
                        ELSE netplan
          /\ workers' = [workers EXCEPT
                            ![w] = IF opened THEN [workers[w] EXCEPT !.pc = "dump"]
                                   ELSE [workers[w] EXCEPT !.pc = "cleanup",
                                                           !.todo = Tail(@)]]
          /\ glob_order' \in GlobOrders(glob_order, netplan', {})
    /\ UNCHANGED <<config_type, is_container, absent, failing, ifile, resolv,
                   inventory, last, nops, live_hostname, hostname_file, hosts>>

\* A rewrite that dumps the document as it was read, the block of the
\* interface still in it.
WDump_stale(w) ==
    /\ workers[w].pc = "dump"
    /\ LET f == Head(workers[w].todo)
       IN netplan' = [netplan EXCEPT
                         ![f] = [workers[w].doc EXCEPT !.text = "dump",
                                                       !.perm = netplan[f].perm]]
    /\ workers' = [workers EXCEPT ![w].pc = "cleanup", ![w].todo = Tail(@)]
    /\ UNCHANGED <<config_type, is_container, absent, failing, ifile, resolv,
                   inventory, last, nops, live_hostname, hostname_file, hosts,
                   glob_order>>

\* yaml.dump(config, f) and the close: the document read, without the block
\* of the interface, reaches the file.
WDump(w) ==
    /\ workers[w].pc = "dump"
    /\ LET f == Head(workers[w].todo)
           d == workers[w].doc
       IN netplan' = [netplan EXCEPT
                         ![f] = [d EXCEPT !.eth = WithoutEth(d.eth, workers[w].name),
                                          !.text = "dump",
                                          !.perm = netplan[f].perm]]
    /\ workers' = [workers EXCEPT ![w].pc = "cleanup", ![w].todo = Tail(@)]
    /\ UNCHANGED <<config_type, is_container, absent, failing, ifile, resolv,
                   inventory, last, nops, live_hostname, hostname_file, hosts,
                   glob_order>>

\* After the loop: _calculate_cidr of a static payload, whose ValueError
\* ends the call with 500, then open(config_file, "w") of 01-<name>.yaml,
\* which creates the file or truncates it, keeping its mode; an open that
\* raises ends the call with 500.
WOpen(w) ==
    /\ workers[w].pc = "cleanup"
    /\ workers[w].todo = <<>>
    /\ LET f == ConfigFileOf[workers[w].name]
           cur == netplan[f]
           config == workers[w].config
           c == calculate_cidr(config.ip_address, config.netmask)
           opened == /\ config.is_dhcp \/ c.exc = "none"
                     /\ ~Exists(cur) \/ CanWrite(cur)
       IN /\ netplan' = IF opened
                        THEN [netplan EXCEPT
                                 ![f] = [form |-> "empty", eth |-> NoEth, rest |-> "",
                                         mode |-> "ok", text |-> "",
                                         perm |-> IF Exists(cur) THEN cur.perm
                                                  ELSE "0644"]]
                        ELSE netplan
          /\ workers' = [workers EXCEPT
                            ![w].pc = IF opened THEN "write" ELSE "done",
                            ![w].status = IF opened THEN 200 ELSE 500]
          /\ last' = IF opened THEN last
                     ELSE [NoLast EXCEPT
                              !.op = "configure", !.name = workers[w].name,
                              !.cfg = config, !.status = 500,
                              !.prevOp = last.op, !.prevName = last.name]
          /\ glob_order' \in GlobOrders(glob_order, netplan', {})
    /\ UNCHANGED <<config_type, is_container, absent, failing, ifile, resolv,
                   inventory, nops, live_hostname, hostname_file, hosts>>

\* yaml.dump(netplan_config, f) and the close: the document reaches the
\* file, whose mode is still the one open gave it.
WWrite(w) ==
    /\ workers[w].pc = "write"
    /\ LET f == ConfigFileOf[workers[w].name]
           c == calculate_cidr(workers[w].config.ip_address, workers[w].config.netmask)
       IN netplan' = [netplan EXCEPT
                         ![f] = [netplan_document(workers[w].name, workers[w].config,
                                                  c.cidr)
                                    EXCEPT !.perm = netplan[f].perm]]
    /\ workers' = [workers EXCEPT ![w].pc = "chmod"]
    /\ UNCHANGED <<config_type, is_container, absent, failing, ifile, resolv,
                   inventory, last, nops, live_hostname, hostname_file, hosts,
                   glob_order>>

\* os.chmod(config_file, 0o600); its exceptions are passed over.
WChmod(w) ==
    /\ workers[w].pc = "chmod"
    /\ LET f == ConfigFileOf[workers[w].name]
       IN netplan' = IF Exists(netplan[f])
                     THEN [netplan EXCEPT ![f].perm = "0600"]
                     ELSE netplan
    /\ workers' = [workers EXCEPT ![w].pc = "validate"]
    /\ UNCHANGED <<config_type, is_container, absent, failing, ifile, resolv,
                   inventory, last, nops, live_hostname, hostname_file, hosts,
                   glob_order>>

\* _validate_netplan_config: the call waits for `netplan info`.
WValidate(w) ==
    /\ workers[w].pc = "validate"
    /\ workers' = [workers EXCEPT
                      ![w].pc = "activate",
                      ![w].trace = validate_netplan_config(ConfigFileOf[workers[w].name])]
    /\ UNCHANGED <<config_type, is_container, absent, failing, netplan, ifile, resolv,
                   inventory, last, nops, live_hostname, hostname_file, hosts,
                   glob_order>>

\* One command of the activation (the call waits for it): `netplan apply`
\* or `netplan generate`, then, when DirectIPApplier runs, its ip commands
\* and the DHCP client, one by one.  The commands are those of
\* netplan_activate, in its order; ran holds the ones that have returned.
WActivate(w) ==
    /\ workers[w].pc = "activate"
    /\ LET act == netplan_activate(workers[w].name, workers[w].config, resolv)
           k == Len(workers[w].ran) + 1
       IN /\ k <= Len(act.trace)
          /\ act.trace[k].c # "write_resolv"
          /\ workers' = [workers EXCEPT
                            ![w].ran =
                                \* the entry of DirectIPApplier is no command
                                IF act.trace[k].c = "direct_apply" /\ k < Len(act.trace)
                                THEN @ \o SubSeq(act.trace, k, k + 1)
                                ELSE Append(@, act.trace[k])]
    /\ UNCHANGED <<config_type, is_container, absent, failing, netplan, ifile, resolv,
                   inventory, last, nops, live_hostname, hostname_file, hosts,
                   glob_order>>

\* _update_dns_servers: the resolver file is read and the new content built
\* (content), then open(resolv_conf, 'w') truncates the file.  An exception
\* leaves the file as it was and is passed over.
WResolvOpen(w) ==
    /\ workers[w].pc = "activate"
    /\ LET act == netplan_activate(workers[w].name, workers[w].config, resolv)
           k == Len(workers[w].ran) + 1
       IN /\ k <= Len(act.trace)
          /\ act.trace[k].c = "write_resolv"
          /\ IF act.trace[k].r = "ok"
             THEN /\ resolv' = <<>>
                  /\ workers' = [workers EXCEPT ![w].pc = "resolv",
                                                ![w].content = act.resolv]
             ELSE /\ resolv' = resolv
                  /\ workers' = [workers EXCEPT ![w].ran = Append(@, act.trace[k])]
    /\ UNCHANGED <<config_type, is_container, absent, failing, netplan, ifile,
                   inventory, last, nops, live_hostname, hostname_file, hosts,
                   glob_order>>

\* f.write('\n'.join(content) + '\n') and the close: the new content reaches
\* the resolver file.
WResolvWrite(w) ==
    /\ workers[w].pc = "resolv"
    /\ resolv' = workers[w].content
    /\ workers' = [workers EXCEPT
                      ![w].pc = "activate",
                      ![w].ran = Append(@, Ev("write_resolv", workers[w].name,
                                               workers[w].config.dns_servers, "ok"))]
    /\ UNCHANGED <<config_type, is_container, absent, failing, netplan, ifile,
                   inventory, last, nops, live_hostname, hostname_file, hosts,
                   glob_order>>

\* The return of the call, after the last command of the activation: 200,
\* or 500 when an exception left the activation.
WReturn(w) ==
    /\ workers[w].pc = "activate"
    /\ LET name == workers[w].name
           act == netplan_activate(name, workers[w].config, resolv)
           status == IF act.exc = "none" THEN 200 ELSE 500
       IN /\ Len(workers[w].ran) = Len(act.trace)
          /\ last' = [NoLast EXCEPT
                         !.op = "configure", !.name = name,
                         !.cfg = workers[w].config, !.status = status,
                         !.trace = workers[w].trace \o workers[w].ran,
                         !.prevOp = last.op, !.prevName = last.name]
          /\ workers' = [workers EXCEPT ![w].pc = "done", ![w].status = status]
    /\ UNCHANGED <<config_type, is_container, absent, failing, netplan, ifile, resolv,
                   inventory, nops, live_hostname, hostname_file, hosts, glob_order>>

\* One configure request for eth0: on a host whose tools work, on a host
\* where `netplan apply` fails or netplan is not installed, in a container.
InitCall ==
    /\ config_type = "netplan"
    /\ \E e \in { [c |-> FALSE, a |-> {}, f |-> {}],
                  [c |-> FALSE, a |-> {}, f |-> {"netplan_apply"}],
                  [c |-> FALSE, a |-> {"netplan"}, f |-> {}],
                  [c |-> TRUE, a |-> {}, f |-> {}] } :
           is_container = e.c /\ absent = e.a /\ failing = e.f
    /\ \E t \in {NoFile, NetDoc("eth0" :> OldStatic, "version2", "ok", "orig", "0644"),
                 NetDoc("eth0" :> OldStatic, "version2", "locked", "orig", "0644")},
          c \in {NoFile, NetDoc(Both, "version2+renderer", "ok", "orig", "0644"),
                 NetDoc(Both, "version2+renderer", "locked", "orig", "0644")},
          o \in {NoFile, NetDoc("eth0" :> OldDhcp, "version2", "ok", "orig", "0644")} :
           netplan = [f \in Files |->
                         CASE f = "01-eth0.yaml" -> t
                           [] f = "50-cloud-init.yaml" -> c
                           [] f = "01-eth1.yaml" -> o
                           [] OTHER -> NoFile]
    /\ ifile = NoInterfacesFile
    /\ resolv = InitResolv
    /\ inventory = {"eth0", "eth1"}
    /\ last = NoLast
    /\ nops = 0
    /\ live_hostname = S.oldhost
    /\ hostname_file = InitHostnameFile
    /\ hosts = InitHostsFile
    /\ \E a \in Configs :
           workers = [w \in {"A"} |->
                         [pc |-> "start", name |-> "eth0", config |-> a,
                          todo |-> <<>>, doc |-> NoFile, trace |-> <<>>, ran |-> <<>>,
                          content |-> <<>>, status |-> 0]]
    /\ glob_order \in GlobOrders(<<>>, netplan, {})


\* Two configure requests that have reached the server together: for the
\* same interface, or for the two interfaces a document of the directory
\* defines together.  The tools work, or the inventory query fails, or
\* `netplan apply` fails, alone or with the `ip addr add` of the fallback.
InitConcurrent ==
    /\ config_type = "netplan"
    /\ is_container = FALSE
    /\ absent = {}
    /\ failing \in {{}, {"ip_addr_show"}, {"netplan_apply"},
                    {"netplan_apply", "ip_addr_add"}}
    /\ \E t \in {NoFile, NetDoc("eth0" :> OldStatic, "version2", "ok", "orig", "0644"),
                 NetDoc("eth0" :> OldStatic, "version2", "locked", "orig", "0644"),
                 NetDoc(Both, "version2", "ok", "orig", "0644")},
          c \in {NoFile, NetDoc(Both, "version2+renderer", "ok", "orig", "0644"),
                 NetDoc(Both, "version2+renderer", "locked", "orig", "0644")} :
           netplan = [f \in Files |->
                         CASE f = "01-eth0.yaml" -> t
                           [] f = "50-cloud-init.yaml" -> c
                           [] OTHER -> NoFile]
    /\ ifile = NoInterfacesFile
    /\ resolv = InitResolv
    /\ inventory \in {{"eth0", "eth1"}, {"eth1"}}
    /\ last = NoLast
    /\ nops = 0
    /\ live_hostname = S.oldhost
    /\ hostname_file = InitHostnameFile
    /\ hosts = InitHostsFile
    /\ \E a \in Configs, b \in Configs, n \in StoreNames :
           /\ n # "eth0" => \E f \in Files : DOMAIN netplan[f].eth = {"eth0", "eth1"}
           /\ workers = [w \in {"A", "B"} |->
                            [pc |-> "start", name |-> IF w = "A" THEN "eth0" ELSE n,
                             config |-> IF w = "A" THEN a ELSE b,
                             todo |-> <<>>, doc |-> NoFile, trace |-> <<>>,
                             ran |-> <<>>, content |-> <<>>, status |-> 0]]
    /\ glob_order \in GlobOrders(<<>>, netplan, {})

\* The steps of the requests the server has received.
NextRequests ==
    \/ \E w \in DOMAIN workers : WAccept(w)
    \/ \E w \in DOMAIN workers : WGlob(w)
    \/ \E w \in DOMAIN workers : WRead(w)
    \/ \E w \in DOMAIN workers : WUnlink(w)
    \/ \E w \in DOMAIN workers : WTruncate(w)
    \/ \E w \in DOMAIN workers : WDump(w)
    \/ \E w \in DOMAIN workers : WOpen(w)
    \/ \E w \in DOMAIN workers : WWrite(w)
    \/ \E w \in DOMAIN workers : WChmod(w)
    \/ \E w \in DOMAIN workers : WValidate(w)
    \/ \E w \in DOMAIN workers : WActivate(w)
    \/ \E w \in DOMAIN workers : WResolvOpen(w)
    \/ \E w \in DOMAIN workers : WResolvWrite(w)
    \/ \E w \in DOMAIN workers : WReturn(w)

SpecCall == InitCall /\ [][NextRequests]_vars

SpecConcurrent == InitConcurrent /\ [][NextRequests]_vars

\* The life of one NetworkManager: config_type and is_container are what
\* the constructor detected on the filesystem it found; then every
\* operation, on one interface.
InitLifetime ==
    /\ netplan \in { [f \in Files |-> NoFile],
                     [f \in Files |->
                         IF f = "01-eth0.yaml"
                         THEN NetDoc("eth0" :> OldStatic, "version2", "ok", "orig", "0644")
                         ELSE NoFile],
                     [f \in Files |->
                         IF f = "50-cloud-init.yaml"
                         THEN NetDoc(Both, "version2+renderer", "ok", "orig", "0644")
                         ELSE NoFile] }
    /\ ifile \in InitInterfaces
    /\ \E nm_dir \in BOOLEAN, networkd_dir \in BOOLEAN :
           config_type = detect_network_config_type(
                             [exists |-> TRUE,
                              listing |-> {f \in Files : Exists(netplan[f])}],
                             nm_dir, ifile.exists, networkd_dir)
    /\ is_container \in BOOLEAN
    /\ absent = {}
    /\ failing = {}
    /\ resolv = InitResolv
    /\ inventory = {"eth0"}
    /\ last = NoLast
    /\ workers = <<>>
    /\ glob_order \in GlobOrders(<<>>, netplan, {})
    /\ live_hostname = S.oldhost
    /\ hostname_file = InitHostnameFile
    /\ hosts = InitHostsFile
    /\ nops = MaxOps

NextLifetime ==
    \/ \E config \in {CfgStatic, CfgDhcp} : ApiConfigure("eth0", config)
    \/ MgrCleanup("eth0")
    \/ ApiCleanup("eth0")
    \/ ApiRestart("eth0")
    \/ ApiEnable("eth0")
    \/ ApiDisable("eth0")
    \/ ApiApplyConfig
    \/ \E raw \in {S.web, S.oldhost} : ApiSetHostname(raw)

SpecLifetime == InitLifetime /\ [][NextLifetime]_vars

(***************************************************************************)
(* The pure functions of NetworkManager, called on their own: the          *)
(* interface-name classifier and the address arithmetic.  The argument of  *)
(* a call is recorded in last.hostname, its result in last.value.          *)
(***************************************************************************)
\* Candidate names: a stem followed by up to MaxTail characters, and the
\* MAC-based names.
ClassifierInputs ==
    LET stems == { <<"e","t","h">>, <<"e","n","s">>, <<"e","n","p">>, <<"e","n","o">>,
                   <<"e","n","x">>, <<"e","m">>, <<"p">>, <<"w","l","a","n">>,
                   <<"w","l","p">>, <<"w","l","o">>, <<"w","w","p">>, <<"l","o">>,
                   <<"d","o","c","k","e","r">>, <<"v","e","t","h">>, <<>> }
        chars == {"0", "9", "s", "p", "\n", "U+0663"}
        tails == UNION { [1..k -> chars] : k \in 0..MaxTail }
        mac == <<"0","0","1","1","2","2","3","3","4","4","5","5">>
        macs == { mac, SubSeq(mac, 1, 11), mac \o <<"6">>, mac \o <<"\n">>,
                  <<"a","a","b","b","c","c","d","d","e","e","f","f">>,
                  <<"A","A","B","B","C","C","D","D","E","E","F","F">>,
                  <<"0","0","1","1","2","2","3","3","4","4","5","g">> }
    IN { st \o t : st \in stems, t \in tails } \cup { <<"e","n","x">> \o m : m \in macs }

CallDetect ==
    /\ nops > 0
    /\ \E netplan_dir \in { [exists |-> FALSE, listing |-> {}],
                            [exists |-> TRUE, listing |-> {}],
                            [exists |-> TRUE, listing |-> {"01-eth0.yaml"}],
                            [exists |-> TRUE, listing |-> {"README", "99-old.yml"}] },
          nm_dir \in BOOLEAN, interfaces_file \in BOOLEAN, networkd_dir \in BOOLEAN :
           FinishHost("detect",
                      [netplan_dir |-> netplan_dir, nm_dir |-> nm_dir,
                       interfaces_file |-> interfaces_file, networkd_dir |-> networkd_dir],
                      HostOutcome(200,
                                  <<detect_network_config_type(netplan_dir, nm_dir,
                                                               interfaces_file,
                                                               networkd_dir)>>,
                                  <<>>, live_hostname, hostname_file, hosts))

CallIsPublic ==
    /\ nops > 0
    /\ \E interface_name \in ClassifierInputs :
           FinishHost("is_public", interface_name,
                      HostOutcome(200, <<is_public_chars(interface_name)>>, <<>>,
                                  live_hostname, hostname_file, hosts))

CallPrefixToNetmask ==
    /\ nops > 0
    /\ \E prefix_len \in 0..32 :
           FinishHost("prefix_to_netmask", prefix_len,
                      HostOutcome(200, prefix_to_netmask(prefix_len), <<>>,
                                  live_hostname, hostname_file, hosts))

\* status 500 stands for an exception leaving the method.  The netmasks
\* are the 33 masks of the prefix lengths and malformed ones
\* ("255.255.abc.0", "", "255..255.0", "255.255.255", "255.255",
\* "255.255.255.0.255").
CallCalculateCidr ==
    /\ nops > 0
    /\ \E ip_address \in {"10.0.0.5", "192.168.1.10"},
          netmask \in { prefix_to_netmask(p) : p \in 0..32 } \cup
                      { <<"255", "255", "abc", "0">>, <<"">>, <<"255", "", "255", "0">>,
                        <<"255", "255", "255">>, <<"255", "255">>,
                        <<"255", "255", "255", "0", "255">> } :
           LET c == calculate_cidr(ip_address, netmask)
           IN FinishHost("calculate_cidr",
                         [ip_address |-> ip_address, netmask |-> netmask],
                         HostOutcome(IF c.exc = "none" THEN 200 ELSE 500, c.cidr, <<>>,
                                     live_hostname, hostname_file, hosts))

InitFunctions ==
    /\ config_type = "netplan"
    /\ is_container = FALSE
    /\ absent = {}
    /\ failing = {}
    /\ netplan = [f \in Files |-> NoFile]
    /\ ifile = NoInterfacesFile
    /\ resolv = InitResolv
    /\ inventory = {"eth0"}
    /\ last = NoLast
    /\ workers = <<>>
    /\ glob_order \in GlobOrders(<<>>, netplan, {})
    /\ nops = 1
    /\ live_hostname = S.oldhost
    /\ hostname_file = InitHostnameFile
    /\ hosts = InitHostsFile

\* One call per behaviour: the functions keep no state between calls.
NextFunctions ==
    \/ CallIsPublic
    \/ CallPrefixToNetmask
    \/ CallCalculateCidr
    \/ CallDetect

SpecFunctions == InitFunctions /\ [][NextFunctions]_vars

UnsupportedTypes == {"networkmanager", "systemd-networkd", "unknown"}

\* configure, called directly and through its endpoint, on the backend
\* kinds that have no configure implementation.  The constructor detects
\* these kinds only when the netplan directory is empty, and the last two
\* only when there is no interfaces file either; no operation on these
\* kinds creates a file there.
InitUnsupported ==
    /\ config_type \in UnsupportedTypes
    /\ is_container \in BOOLEAN
    /\ \E e \in Environments({"ip", "ifupdown"}, {"ip_addr_show", "ifup"}) :
           absent = e[1] /\ failing = e[2]
    /\ netplan = [f \in Files |-> NoFile]
    /\ ifile \in (IF config_type = "networkmanager" THEN InitInterfaces
                  ELSE {NoInterfacesFile})
    /\ resolv = InitResolv
    /\ inventory = {"eth0", "lo", "docker0"}
    /\ last = NoLast
    /\ workers = <<>>
    /\ glob_order \in GlobOrders(<<>>, netplan, {})
    /\ live_hostname = S.oldhost
    /\ hostname_file = InitHostnameFile
    /\ hosts = InitHostsFile
    /\ nops = MaxOps

NextUnsupported ==
    \/ \E name \in StoreNames, config \in {CfgStatic, CfgDhcp} : MgrConfigure(name, config)
    \/ \E name \in ApiNames, config \in {CfgStatic, CfgDhcp} : ApiConfigure(name, config)

SpecUnsupported == InitUnsupported /\ [][NextUnsupported]_vars

(***************************************************************************)
(* Properties of the netplan document store (SpecStore).                   *)
(***************************************************************************)
HasEvent(l, c, r) == \E i \in 1..Len(l.trace) : l.trace[i].c = c /\ l.trace[i].r = r

\* The call wrote its document 01-<name>.yaml.
Wrote(l) == HasEvent(l, "write_netplan", "ok")

IsUpsert(l) == l.op = "mgr_configure" /\ config_type = "netplan" /\ Wrote(l)
IsRemove(l) == l.op = "mgr_cleanup"

\* The settings the payload asks for, as a block of the document.
IsSettingsOf(b, config) ==
    IF config.is_dhcp
    THEN b.keys = {"dhcp4"} /\ b.dhcp4 = TRUE
    ELSE /\ "addresses" \in b.keys /\ "dhcp4" \notin b.keys
         /\ b.addresses = << <<config.ip_address, 24>> >>
         /\ ("routes" \in b.keys) = (config.gateway # "")
         /\ (config.gateway # "" =>
                b.routes = << [to |-> "default", via |-> config.gateway] >>)
         /\ ("nameservers" \in b.keys) = (config.dns_servers # <<>>)
         /\ (config.dns_servers # <<>> => b.nameservers = config.dns_servers)

\* The file system lets the process read, rewrite and delete the document.
Modifiable(d) == d.mode = "ok"

\* C1 as stated: after configure(name, cfg) has written its document, exactly
\* one *.yaml document defines name, it is 01-<name>.yaml, and its block for
\* name holds exactly the settings built from cfg.
C1_UpsertUnique ==
    IsUpsert(last) =>
        /\ DefiningFiles(netplan, last.name) = {ConfigFileOf[last.name]}
        /\ IsSettingsOf(netplan[ConfigFileOf[last.name]].eth[last.name], last.cfg)

\* C1 amended: after configure(name, cfg) has written its document,
\* 01-<name>.yaml defines name alone with exactly the settings built from cfg;
\* any other *.yaml document that still defines name is a document cleanup
\* could not read, delete or rewrite, left as it was; when every earlier
\* document defining name was readable and modifiable, 01-<name>.yaml is the
\* only one.
C1_UpsertUniqueAmended ==
    IsUpsert(last) =>
        LET target == ConfigFileOf[last.name] IN
        /\ target \in DefiningFiles(netplan, last.name)
        /\ DOMAIN netplan[target].eth = {last.name}
        /\ IsSettingsOf(netplan[target].eth[last.name], last.cfg)
        /\ \A f \in DefiningFiles(netplan, last.name) \ {target} :
               ~Modifiable(last.pre[f]) /\ netplan[f] = last.pre[f]
        /\ (\A f \in DefiningFiles(last.pre, last.name) : Modifiable(last.pre[f]))
               => DefiningFiles(netplan, last.name) = {target}

\* upsert(name, static) followed by upsert(name, dhcp): the second call found
\* the document the first one wrote and left one document, with dhcp only.
C1_Witness ==
    /\ IsUpsert(last) /\ last.cfg = CfgDhcp /\ last.prevOp = "mgr_configure"
    /\ last.prevName = last.name
    /\ Defines(last.pre[ConfigFileOf[last.name]], last.name)
    /\ IsSettingsOf(last.pre[ConfigFileOf[last.name]].eth[last.name], CfgStatic)
    /\ DefiningFiles(netplan, last.name) = {ConfigFileOf[last.name]}
    /\ netplan[ConfigFileOf[last.name]].eth[last.name].keys = {"dhcp4"}

\* C2 as stated: after remove(name) no *.yaml document defines name, whatever
\* the directory held, unreadable and unmodifiable documents included.
C2_RemoveNone ==
    IsRemove(last) => DefiningFiles(netplan, last.name) = {}

\* C2 amended: after remove(name), a *.yaml document defines name only if the
\* process could not read, delete or rewrite it, and that document is left as
\* it was; when every document defining name is readable and modifiable, none
\* defines it afterwards.
C2_RemoveNoneAmended ==
    IsRemove(last) =>
        /\ \A f \in DefiningFiles(netplan, last.name) :
               ~Modifiable(last.pre[f]) /\ netplan[f] = last.pre[f]
        /\ (\A f \in DefiningFiles(last.pre, last.name) : Modifiable(last.pre[f]))
               => DefiningFiles(netplan, last.name) = {}

\* remove found documents defining the interface, beside one that does not
\* parse, and none defines it afterwards.
C2_Witness ==
    /\ IsRemove(last)
    /\ Cardinality(DefiningFiles(last.pre, last.name)) >= 2
    /\ \E f \in Files : last.pre[f].form = "error"
    /\ DefiningFiles(netplan, last.name) = {}

\* C3: remove(name) deletes a modifiable document whose only interface is
\* name; from a modifiable document with further interfaces it deletes the
\* block of name only: the file stays, every sibling block and the other keys
\* of the document are as before.  No document loses a sibling block or
\* another key, and documents that do not define name are untouched.
C3_RemoveFrame ==
    IsRemove(last) =>
        \A f \in Files :
            LET d == last.pre[f] IN
            IF IsYaml(f) /\ Defines(d, last.name)
            THEN IF Cardinality(DOMAIN d.eth) > 1
                 THEN /\ Exists(netplan[f])
                      /\ netplan[f].rest = d.rest
                      /\ \A n \in (DOMAIN d.eth) \ {last.name} :
                             n \in DOMAIN netplan[f].eth /\ netplan[f].eth[n] = d.eth[n]
                      /\ Modifiable(d) =>
                             DOMAIN netplan[f].eth = (DOMAIN d.eth) \ {last.name}
                 ELSE Modifiable(d) => ~Exists(netplan[f])
            ELSE netplan[f] = d

\* remove hit a document with two interfaces and a document with one.
C3_Witness ==
    /\ IsRemove(last)
    /\ \E f \in Files :
           /\ IsYaml(f) /\ Defines(last.pre[f], last.name) /\ Modifiable(last.pre[f])
           /\ Cardinality(DOMAIN last.pre[f].eth) = 2
           /\ Exists(netplan[f]) /\ ~Defines(netplan[f], last.name)
    /\ \E f \in Files :
           /\ IsYaml(f) /\ Defines(last.pre[f], last.name) /\ Modifiable(last.pre[f])
           /\ Cardinality(DOMAIN last.pre[f].eth) = 1
           /\ ~Exists(netplan[f])

\* The step is remove(name) right after an upsert of the same name that
\* started from a store in which no document defined name.
UpsertThenRemove ==
    /\ IsUpsert(last)
    /\ DefiningFiles(last.pre, last.name) = {}
    /\ last'.op = "mgr_cleanup" /\ last'.name = last.name

\* C4 as stated: from a store in which no document defines name, upsert(name,
\* s) followed by remove(name) leaves the store as it was before the upsert.
C4_RoundTrip ==
    [][UpsertThenRemove => netplan' = last.pre]_vars

\* C4 amended: from a store in which no document defines name, upsert(name,
\* s) followed by remove(name) leaves no file 01-<name>.yaml and leaves every
\* other file as it was before the upsert; the store is as it was before the
\* upsert when it held no file 01-<name>.yaml.
C4_RoundTripAmended ==
    [][UpsertThenRemove =>
          /\ ~Exists(netplan'[ConfigFileOf[last.name]])
          /\ \A f \in Files \ {ConfigFileOf[last.name]} : netplan'[f] = last.pre[f]
          /\ ~Exists(last.pre[ConfigFileOf[last.name]]) => netplan' = last.pre]_vars

\* remove(name) ran right after upsert(name, s) on a store that held other
\* documents but none for name: the backing file is gone.
C4_Witness ==
    /\ IsRemove(last) /\ last.prevOp = "mgr_configure" /\ last.prevName = last.name
    /\ Defines(last.pre[ConfigFileOf[last.name]], last.name)
    /\ last.pre[ConfigFileOf[last.name]].text = "dump"
    /\ ~Exists(netplan[ConfigFileOf[last.name]])
    /\ \E f \in Files : Exists(netplan[f])
    /\ DefiningFiles(netplan, last.name) = {}

(***************************************************************************)
(* Properties of the handlers and of configure (Spec, SpecConfigure).      *)
(***************************************************************************)
\* The positions of the trace at which command c was attempted.
Idx(l, c) == {i \in 1..Len(l.trace) : l.trace[i].c = c}

\* Every attempt of command a comes before every attempt of command b.
Before(l, a, b) == \A i \in Idx(l, a), j \in Idx(l, b) : i < j

GuardedOps == {"get", "configure", "restart", "enable", "disable", "cleanup"}

\* C5: an interface-targeted request whose name the classifier rejects is
\* answered 400, and nothing was attempted: no command, no file written or
\* deleted, on every backend kind and in every environment.
C5_FailClosed ==
    (last.op \in GuardedOps /\ ~is_public_chars(NameChars[last.name])) =>
        /\ last.status = 400
        /\ last.trace = <<>>
        /\ netplan = last.pre /\ ifile = last.preIfile /\ resolv = last.preResolv

\* restart of the loopback interface was asked for on the netplan backend
\* and refused.
C5_Witness ==
    /\ last.op = "restart" /\ last.name = "lo" /\ config_type = "netplan"
    /\ last.status = 400 /\ last.trace = <<>>

IsNetplanConfigure(l) == l.op = "mgr_configure" /\ config_type = "netplan"

\* C6: configure(name, static cfg) on the netplan backend inside a container
\* never attempts `netplan apply`; it writes the document (always, when the
\* netmask is a dotted quad), and once the document is written it runs
\* `netplan generate` after the write and DirectIPApplier after generate,
\* whether generate succeeds or not, for the same name, address and gateway;
\* the document holds the CIDR address and the default route via the gateway.
C6_ContainerConfigure ==
    (IsNetplanConfigure(last) /\ is_container /\ ~last.cfg.is_dhcp) =>
        /\ Idx(last, "netplan_apply") = {}
        /\ last.cfg.netmask = Mask24 => Wrote(last)
        /\ Wrote(last) =>
              /\ Idx(last, "netplan_generate") # {}
              /\ Idx(last, "direct_apply") # {}
              /\ Before(last, "write_netplan", "netplan_generate")
              /\ Before(last, "netplan_generate", "direct_apply")
              /\ \A i \in Idx(last, "direct_apply") : last.trace[i].n = last.name
              /\ \A i \in Idx(last, "ip_addr_add") :
                     /\ last.trace[i].n = last.name
                     /\ last.trace[i].a = <<last.cfg.ip_address, 24>>
              /\ \A i \in Idx(last, "ip_route_add") :
                     last.trace[i].a = <<last.cfg.gateway>>
              /\ IsSettingsOf(netplan[ConfigFileOf[last.name]].eth[last.name], last.cfg)

\* The scenario of the specification: 10.0.0.5/24 with gateway 10.0.0.1 in
\* a container, generate succeeded, the address and the route were added.
C6_Witness ==
    /\ IsNetplanConfigure(last) /\ is_container /\ last.cfg = CfgStatic
    /\ last.status = 200
    /\ HasEvent(last, "netplan_generate", "ok")
    /\ \E i \in Idx(last, "ip_addr_add") : last.trace[i].a = <<"10.0.0.5", 24>>
    /\ \E i \in Idx(last, "ip_route_add") :
           last.trace[i].a = <<"10.0.0.1">> /\ last.trace[i].r = "ok"

\* C7: configure on the netplan backend outside a container attempts
\* `netplan apply` after the document is written; DirectIPApplier is invoked
\* exactly when apply exits non-zero or netplan is missing; when apply
\* succeeds configure returns success.
C7_HostConfigure ==
    (IsNetplanConfigure(last) /\ ~is_container /\ Wrote(last)) =>
        /\ Idx(last, "netplan_apply") # {}
        /\ Before(last, "write_netplan", "netplan_apply")
        /\ (Idx(last, "direct_apply") # {}) = ~HasEvent(last, "netplan_apply", "ok")
        /\ Before(last, "netplan_apply", "direct_apply")
        /\ HasEvent(last, "netplan_apply", "ok") => last.status = 200

\* apply exited non-zero outside a container and DirectIPApplier took over.
C7_Witness ==
    /\ IsNetplanConfigure(last) /\ ~is_container /\ Wrote(last)
    /\ HasEvent(last, "netplan_apply", "fail")
    /\ Idx(last, "direct_apply") # {}
    /\ last.status = 200

PrivilegedCommands ==
    {"netplan_apply", "systemctl_restart_networking", "systemctl_restart_NetworkManager"}

\* C8: in a container no request (configure, restart, enable, disable,
\* apply-config), on any backend kind, runs `netplan apply` or a systemctl
\* restart of networking or NetworkManager.
C8_ContainerSuppression ==
    (is_container /\ last.op \in {"configure", "restart", "enable", "disable", "apply_config"})
        => \A i \in 1..Len(last.trace) : last.trace[i].c \notin PrivilegedCommands

IsLegacyConfigure(l) == l.op = "mgr_configure" /\ config_type = "interfaces"

\* C9: once configure on the LegacyInterfaces backend has rewritten the
\* interfaces file, DirectIPApplier is invoked, whatever ifdown/ifup and the
\* link down/up fallback did (non-zero exit or missing tool).
C9_AlwaysDirect ==
    (IsLegacyConfigure(last) /\ HasEvent(last, "write_interfaces", "ok"))
        => Idx(last, "direct_apply") # {}

CountLines(lines, k, n) ==
    Cardinality({i \in 1..Len(lines) : lines[i].k = k /\ lines[i].n = n})

\* C10: after configure(name, cfg) on the LegacyInterfaces backend the file
\* holds exactly one `auto name` line and exactly one `iface name` stanza,
\* the freshly generated one, at its end.
C10_OneStanza ==
    IsLegacyConfigure(last) =>
        /\ CountLines(ifile.lines, "auto", last.name) = 1
        /\ CountLines(ifile.lines, "iface", last.name) = 1
        /\ LET fresh == new_config(last.name, last.cfg)
           IN Len(ifile.lines) >= Len(fresh)
              /\ SubSeq(ifile.lines, Len(ifile.lines) - Len(fresh) + 1, Len(ifile.lines))
                     = fresh

(***************************************************************************)
(* Payload handling of configure (SpecConfigure).                          *)
(***************************************************************************)
CountKind(lines, k) == Cardinality({i \in 1..Len(lines) : lines[i].k = k})

\* C11: configure with is_dhcp = TRUE writes no static field, whatever
\* address, netmask, gateway and DNS servers the payload carries: on netplan
\* the document holds the interface alone with the block {dhcp4: true}; on
\* the legacy backend the lines appended are a blank line, `auto name` and
\* `iface name inet dhcp`, and the file gains no option line.
C11_DhcpNoStatic ==
    (last.op = "mgr_configure" /\ last.cfg.is_dhcp) =>
        /\ (config_type = "netplan" /\ Wrote(last)) =>
              LET d == netplan[ConfigFileOf[last.name]]
              IN /\ DOMAIN d.eth = {last.name}
                 /\ d.eth[last.name] = Block({"dhcp4"}, TRUE, <<>>, <<>>, <<>>)
        /\ (config_type = "interfaces" /\ HasEvent(last, "write_interfaces", "ok")) =>
              LET n == Len(ifile.lines)
              IN /\ n >= 3
                 /\ SubSeq(ifile.lines, n - 2, n) =
                        << ILine("blank", "", <<>>), ILine("auto", last.name, <<>>),
                           ILine("iface", last.name, <<"inet", "dhcp">>) >>
                 /\ n <= Len(last.preIfile.lines) + 3
                 /\ CountKind(ifile.lines, "opt") <= CountKind(last.preIfile.lines, "opt")

\* A dhcp payload that carries an address, a gateway and a DNS server was
\* written to the netplan store.
C11_Witness ==
    /\ IsNetplanConfigure(last) /\ Wrote(last) /\ last.cfg.is_dhcp
    /\ last.cfg.ip_address # "" /\ last.cfg.gateway # "" /\ last.cfg.dns_servers # <<>>
    /\ netplan[ConfigFileOf[last.name]].eth[last.name].keys = {"dhcp4"}

\* C12: on the NetworkManager, systemd-networkd and unknown kinds configure
\* changes nothing: the netplan directory, the interfaces file and
\* resolv.conf are as before and no command beyond the inventory query of
\* the endpoint is run.  A call that reaches the engine (directly, or through
\* the endpoint for a public interface of the inventory) is answered 400.
C12_Unsupported ==
    (last.op \in {"mgr_configure", "configure"} /\ config_type \in UnsupportedTypes) =>
        /\ netplan = last.pre /\ ifile = last.preIfile /\ resolv = last.preResolv
        /\ \A i \in 1..Len(last.trace) : last.trace[i].c = "ip_addr_show"
        /\ last.op = "mgr_configure" => (last.status = 400 /\ last.trace = <<>>)
        /\ (last.op = "configure" /\ HasEvent(last, "ip_addr_show", "ok")
              /\ last.name \in inventory) => last.status = 400

\* The endpoint found eth0 in the inventory on a NetworkManager host that
\* still has an interfaces file, and the engine refused the request.
C12_Witness ==
    /\ last.op = "configure" /\ config_type = "networkmanager" /\ last.name = "eth0"
    /\ HasEvent(last, "ip_addr_show", "ok") /\ last.status = 400
    /\ ifile.exists /\ last.cfg = CfgStatic

\* The payload asks for a static address with a netmask that is not a dotted
\* quad of integers.
IsMalformed(config) == ~config.is_dhcp /\ ~netmask_parses(config.netmask)

\* C13: a configure request with a malformed payload is reported as an
\* error and changes nothing: the netplan directory, the interfaces file
\* and resolv.conf are as before the call, and no file operation or command
\* was attempted.
C13_ValidationNoChange ==
    (last.op = "mgr_configure" /\ IsMalformed(last.cfg)) =>
        /\ last.status >= 400
        /\ netplan = last.pre /\ ifile = last.preIfile /\ resolv = last.preResolv
        /\ last.trace = <<>>

(***************************************************************************)
(* Fallback chains (SpecFallback).                                         *)
(***************************************************************************)
LastIdx(l, c) == CHOOSE i \in Idx(l, c) : \A j \in Idx(l, c) : j <= i

\* The last run of DirectIPApplier raised: the ip tool is missing, or adding
\* the address exited non-zero.  (A failing route or DHCP client is
\* tolerated by DirectIPApplier itself.)
DirectFailed(l) ==
    /\ Idx(l, "direct_apply") # {}
    /\ \E j \in (LastIdx(l, "direct_apply") + 1)..Len(l.trace) :
           \/ l.trace[j].c # "dhclient" /\ l.trace[j].r = "absent"
           \/ l.trace[j].c = "ip_addr_add" /\ l.trace[j].r = "fail"

\* The step before DirectIPApplier failed: apply or generate on netplan;
\* ifdown/ifup and then the link down/up cycle on the legacy backend.
ActivationFailed(l) ==
    IF config_type = "netplan"
    THEN \E i \in Idx(l, "netplan_apply") \cup Idx(l, "netplan_generate") :
             l.trace[i].r # "ok"
    ELSE /\ \E i \in Idx(l, "ifdown") \cup Idx(l, "ifup") :
                l.trace[i].r = "absent" \/ (l.trace[i].c = "ifup" /\ l.trace[i].r = "fail")
         /\ \E i \in 1..Len(l.trace) :
                /\ Idx(l, "direct_apply") # {} => i < LastIdx(l, "direct_apply")
                /\ \/ l.trace[i].c = "ip_link_down" /\ l.trace[i].r = "absent"
                   \/ l.trace[i].c = "ip_link_up" /\ l.trace[i].r # "ok"

LastEvent(l) == l.trace[Len(l.trace)]

\* C14: configure (well-formed payload, file written) reports failure only
\* when its last fallback, DirectIPApplier, was run and failed, and reports
\* failure whenever the activation step and DirectIPApplier both failed;
\* restart reports failure only when its last fallback, the link down/up
\* cycle, was run and failed, and reports success only when its last
\* command succeeded.
C14_FallbackExhaustion ==
    /\ (last.op = "mgr_configure" /\ ~IsMalformed(last.cfg)
          /\ (Wrote(last) \/ HasEvent(last, "write_interfaces", "ok"))) =>
          /\ last.status # 200 => DirectFailed(last)
          /\ (ActivationFailed(last) /\ DirectFailed(last)) => last.status # 200
    /\ (last.op = "restart" /\ last.status # 400) =>
          /\ last.status # 200 =>
                /\ LastEvent(last).c \in {"ip_link_down", "ip_link_up"}
                /\ LastEvent(last).r # "ok"
                /\ config_type = "netplan" => Cardinality(Idx(last, "ip_link_down")) = 2
                /\ config_type = "interfaces" => Idx(last, "ip_link_down") # {}
          /\ last.status = 200 => LastEvent(last).r = "ok"

(***************************************************************************)
(* Best-effort steps (SpecBestEffort).                                     *)
(***************************************************************************)
\* C15: a failing best-effort step does not change the result of its
\* parent.  configure whose DirectIPApplier reached the DNS rewrite succeeds
\* although the rewrite failed; enable succeeds exactly when the link was
\* brought up, whatever the netplan re-apply did; set_hostname succeeds
\* exactly when the hostname service or the write of the hostname file
\* succeeded, whatever the hosts-file update did.
C15_BestEffort ==
    /\ (last.op = "mgr_configure" /\ HasEvent(last, "write_resolv", "fail")) =>
          last.status = 200 /\ resolv = last.preResolv
    /\ (last.op = "enable" /\ last.status # 400) =>
          (last.status = 200) = HasEvent(last, "ip_link_up", "ok")
    /\ last.op = "mgr_set_hostname" =>
          /\ (last.status = 200) = (\/ HasEvent(last, "hostnamectl_set", "ok")
                                    \/ HasEvent(last, "write_hostname_file", "ok"))
          /\ HasEvent(last, "write_hosts", "fail") =>
                last.status = 200 /\ hosts = last.preHosts

\* enable on the netplan backend: the link came up, the re-apply exited
\* non-zero, the request succeeded.
C15_Witness ==
    /\ last.op = "enable" /\ config_type = "netplan"
    /\ HasEvent(last, "ip_link_up", "ok") /\ HasEvent(last, "netplan_apply", "fail")
    /\ last.status = 200

(***************************************************************************)
(* HostnameStore (SpecHostname, SpecHostnameApi).                          *)
(***************************************************************************)
\* C16: get_hostname never raises and returns the value of the first source
\* that answers, in the order hostnamectl, hostname command, /etc/hostname,
\* and "unknown" when none does, for every outcome of the three sources.
C16_GetNeverRaises ==
    last.op = "mgr_get_hostname" =>
        /\ last.status = 200
        /\ last.value =
              IF HasEvent(last, "hostnamectl_get", "ok") THEN last.preLive
              ELSE IF HasEvent(last, "hostname_cmd", "ok") THEN last.preLive
              ELSE IF last.preHostnameFile.exists /\ "read_hostname_file" \notin failing
              THEN last.preHostnameFile.text
              ELSE S.unknown
        /\ Before(last, "hostnamectl_get", "hostname_cmd")
        /\ Before(last, "hostname_cmd", "read_hostname_file")

\* The lines of a hosts file whose address is 127.0.1.1.
AliasLines(lines) == {i \in 1..Len(lines) : lines[i] # <<>> /\ lines[i][1] = S.alias}

SetWroteHosts(l) == l.op = "mgr_set_hostname" /\ HasEvent(l, "write_hosts", "ok")

\* C17: after set_hostname(h) has written the hosts file, the file holds
\* exactly one line for 127.0.1.1, and that line maps to h, however many
\* such lines it held before.
C17_OneAliasLine ==
    SetWroteHosts(last) =>
        /\ Cardinality(AliasLines(hosts.lines)) = 1
        /\ \A i \in AliasLines(hosts.lines) : hosts.lines[i] = << S.alias, last.hostname >>

\* An effective (uncommented) loopback entry: address 127.0.0.1 with the
\* name localhost among its names.
IsLoopbackEntry(line) ==
    /\ Len(line) >= 2
    /\ line[1] = S.loopback
    /\ \E k \in 2..Len(line) : line[k] = S.localhost

LoopbackEntries(lines) == {lines[i] : i \in {j \in 1..Len(lines) : IsLoopbackEntry(lines[j])}}

\* C18: set_hostname keeps every existing 127.0.0.1 localhost line as it
\* was, aliases included, and after it has written the hosts file the file
\* holds an effective 127.0.0.1 localhost entry.
C18_LoopbackPreserved ==
    SetWroteHosts(last) =>
        /\ LoopbackEntries(last.preHosts.lines) \subseteq LoopbackEntries(hosts.lines)
        /\ LoopbackEntries(hosts.lines) # {}

ServiceFailed(l) ==
    HasEvent(l, "hostnamectl_set", "fail") \/ HasEvent(l, "hostnamectl_set", "absent")

\* C19: set_hostname always attempts the write of the hostname file,
\* whether or not hostnamectl succeeded; it fails if and only if both
\* hostnamectl and that write failed; a failed update of the hosts file
\* never makes it fail.
C19_SetHostnameFailure ==
    last.op = "mgr_set_hostname" =>
        /\ HasEvent(last, "write_hostname_file", "ok")
              \/ HasEvent(last, "write_hostname_file", "fail")
        /\ last.status = 500 <=>
              (ServiceFailed(last) /\ HasEvent(last, "write_hostname_file", "fail"))
        /\ HasEvent(last, "write_hosts", "fail") => last.status = 200
        /\ last.status \in {200, 500}

\* Both attempts failed and the call ended in an error.
C19_Witness ==
    /\ last.op = "mgr_set_hostname"
    /\ ServiceFailed(last)
    /\ HasEvent(last, "write_hostname_file", "fail")
    /\ last.status = 500

\* C20: POST /hostname answers 400, before any read-back or write, exactly
\* for the payloads that do not match [a-z0-9]([a-z0-9-]{0,61}[a-z0-9])?
\* (the empty string, more than 63 characters, upper-case letters, invalid
\* symbols), and accepts every payload that matches.
C20_HostnameValidation ==
    last.op = "set_hostname" =>
        /\ last.status = 400 <=> ~hostname_body_matches(last.hostname)
        /\ last.status = 400 =>
              /\ last.trace = <<>>
              /\ live_hostname = last.preLive
              /\ hostname_file = last.preHostnameFile
              /\ hosts = last.preHosts

\* The payload with surrounding whitespace removed and letters lower-cased.
Normalized(raw) == lower(strip(raw))

\* C20 (amended): POST /hostname answers 400, before any read-back or
\* write, exactly for the payloads whose trimmed, lower-cased form does not
\* match [a-z0-9]([a-z0-9-]{0,61}[a-z0-9])?; the empty string, a string of
\* 64 characters and "My_Host!" are among them, "web-server-01" is not, and
\* an accepted payload is set in its trimmed, lower-cased form.
C20_HostnameValidationAmended ==
    last.op = "set_hostname" =>
        /\ last.status = 400 <=> ~hostname_body_matches(Normalized(last.hostname))
        /\ last.status = 400 =>
              /\ last.trace = <<>>
              /\ live_hostname = last.preLive
              /\ hostname_file = last.preHostnameFile
              /\ hosts = last.preHosts
        /\ last.hostname \in {<<>>, [i \in 1..64 |-> "a"],
                              <<"M", "y", "_", "H", "o", "s", "t", "!">>}
              => last.status = 400
        /\ last.hostname = S.web => last.status # 400
        /\ last.status = 200 => last.value = Normalized(last.hostname)
        /\ \A i \in 1..Len(last.trace) :
              last.trace[i].c \in {"hostnamectl_set", "write_hostname_file"}
                  => last.trace[i].a = Normalized(last.hostname)

\* A payload with upper-case letters was accepted and set lower-cased.
C20_Witness ==
    /\ last.op = "set_hostname"
    /\ last.hostname = <<"W", "e", "b", "S", "e", "r", "v", "e", "r">>
    /\ last.status = 200
    /\ HasEvent(last, "write_hostname_file", "ok")
    /\ hostname_file.text = <<"w", "e", "b", "s", "e", "r", "v", "e", "r">>

(***************************************************************************)
(* Properties of the pure functions (SpecFunctions).                       *)
(***************************************************************************)
\* N: a non-empty string of the decimal digits 0..9.
IsN(t) == t # <<>> /\ \A i \in 1..Len(t) : t[i] \in Digits

\* stem N, as a whole string.
StemN(stem, s) ==
    /\ Len(s) > Len(stem)
    /\ SubSeq(s, 1, Len(stem)) = stem
    /\ IsN(SubSeq(s, Len(stem) + 1, Len(s)))

\* stem N sep N, as a whole string.
StemNSepN(stem, sep, s) ==
    \E k \in 1..Len(s) :
        /\ s[k] = sep
        /\ StemN(stem, SubSeq(s, 1, k - 1))
        /\ IsN(SubSeq(s, k + 1, Len(s)))

\* The eleven grammars of public interface names.
InPublicGrammar(s) ==
    \/ StemN(<<"e","t","h">>, s)
    \/ StemN(<<"e","n","s">>, s)
    \/ StemNSepN(<<"e","n","p">>, "s", s)
    \/ StemN(<<"e","n","o">>, s)
    \/ /\ Len(s) = 15
       /\ SubSeq(s, 1, 3) = <<"e","n","x">>
       /\ \A i \in 4..15 : s[i] \in HexLower
    \/ StemN(<<"e","m">>, s)
    \/ StemNSepN(<<"p">>, "p", s)
    \/ StemN(<<"w","l","a","n">>, s)
    \/ StemNSepN(<<"w","l","p">>, "s", s)
    \/ StemN(<<"w","l","o">>, s)
    \/ StemNSepN(<<"w","w","p">>, "s", s)

\* C21: _is_public_network_interface(name) is true exactly for the names
\* that match, as a whole string, one of the eleven grammars, and false for
\* every other string (lo, docker0, the empty string, a matching name
\* followed by further characters such as a newline).
C21_PublicExactly ==
    last.op = "is_public" => (last.value = <<TRUE>> <=> InPublicGrammar(last.hostname))

\* C22: for every prefix length p in 0..32, the CIDR computed from ip and
\* the netmask of p is ip/p; the netmask of 24 is 255.255.255.0 and the
\* CIDR of 192.168.1.10 with 255.255.255.0 is 192.168.1.10/24.
C22_PrefixRoundTrip ==
    /\ last.op = "calculate_cidr" =>
          /\ \A p \in 0..32 :
                 last.hostname.netmask = prefix_to_netmask(p) =>
                     /\ last.status = 200
                     /\ last.value = <<last.hostname.ip_address, p>>
          /\ last.hostname = [ip_address |-> "192.168.1.10", netmask |-> Mask24] =>
                 last.value = <<"192.168.1.10", 24>>
    /\ last.op = "prefix_to_netmask" =>
          /\ Len(last.value) = 4
          /\ last.hostname = 24 => last.value = <<"255", "255", "255", "0">>
          /\ calculate_cidr("10.0.0.5", last.value).cidr = <<"10.0.0.5", last.hostname>>

\* The netmask of prefix length 19, 255.255.224.0, was converted back.
C22_Witness ==
    /\ last.op = "calculate_cidr"
    /\ last.hostname.netmask = <<"255", "255", "224", "0">>
    /\ last.hostname.netmask = prefix_to_netmask(19)
    /\ last.value = <<last.hostname.ip_address, 19>>

\* A netmask that is not four octets, or has an octet that is no number.
MalformedNetmask(netmask) ==
    Len(netmask) # 4 \/ \E i \in 1..Len(netmask) : netmask[i] \notin DOMAIN OctetValue

\* C23: on a malformed netmask the CIDR computation does not raise and
\* returns ip/24.
C23_DefaultPrefix ==
    (last.op = "calculate_cidr" /\ MalformedNetmask(last.hostname.netmask)) =>
        /\ last.status = 200
        /\ last.value = <<last.hostname.ip_address, 24>>

\* C25: detect returns netplan iff the netplan directory exists and is
\* non-empty, otherwise networkmanager iff the NetworkManager directory
\* exists, otherwise interfaces iff the interfaces file exists, otherwise
\* systemd-networkd iff its directory exists, otherwise unknown; it changes
\* nothing and runs no command.
C25_DetectPriority ==
    last.op = "detect" =>
        LET f == last.hostname
            np == f.netplan_dir.exists /\ f.netplan_dir.listing # {}
            r == last.value[1]
        IN /\ r \in {"netplan", "networkmanager", "interfaces", "systemd-networkd",
                     "unknown"}
           /\ r = "netplan" <=> np
           /\ r = "networkmanager" <=> (~np /\ f.nm_dir)
           /\ r = "interfaces" <=> (~np /\ ~f.nm_dir /\ f.interfaces_file)
           /\ r = "systemd-networkd" <=>
                  (~np /\ ~f.nm_dir /\ ~f.interfaces_file /\ f.networkd_dir)
           /\ r = "unknown" <=>
                  (~np /\ ~f.nm_dir /\ ~f.interfaces_file /\ ~f.networkd_dir)
           /\ last.trace = <<>>
           /\ netplan = last.pre /\ ifile = last.preIfile /\ resolv = last.preResolv
           /\ hosts = last.preHosts /\ hostname_file = last.preHostnameFile
           /\ live_hostname = last.preLive

\* An empty netplan directory with both the NetworkManager directory and
\* the interfaces file present: networkmanager.
C25_Witness ==
    /\ last.op = "detect"
    /\ last.hostname.netplan_dir = [exists |-> TRUE, listing |-> {}]
    /\ last.hostname.nm_dir /\ last.hostname.interfaces_file
    /\ last.value = <<"networkmanager">>

(***************************************************************************)
(* Properties of configure requests that arrive together (SpecConcurrent). *)
(***************************************************************************)
BothDone == workers # <<>> /\ \A w \in DOMAIN workers : workers[w].pc = "done"

\* A request that has been received can take its first step whatever the
\* other request is doing: the calls may interleave.
MayInterleave == \A w \in DOMAIN workers : workers[w].pc = "start" => ENABLED WAccept(w)

\* At most one call is between its first step and its return.
OneAtATime == Cardinality({w \in DOMAIN workers : workers[w].pc \notin {"start", "done"}}) <= 1

\* The handler answers a call for name n before the engine is reached: 400
\* when n is no public interface, 500 when the inventory query fails, 404
\* when n is not in the inventory.
Rejected(n) ==
    \/ ~is_public_network_interface(n)
    \/ get_interfaces.exc # "none"
    \/ n \notin get_interfaces.names

\* The store after a call for name n that reached the engine: no document
\* the process can modify defines n, except 01-<n>.yaml when the call wrote
\* it, which then defines n alone with the settings of config; a successful
\* call has written it.
StoreAfterCall(n, config, status) ==
    LET target == ConfigFileOf[n]
        own == /\ DOMAIN netplan[target].eth = {n}
               /\ IsSettingsOf(netplan[target].eth[n], config)
    IN
    /\ \A f \in DefiningFiles(netplan, n) \ {target} : ~Modifiable(netplan[f])
    /\ status = 200 => target \in DefiningFiles(netplan, n) /\ own
    /\ (status # 200 /\ target \in DefiningFiles(netplan, n)) =>
           ~Modifiable(netplan[target]) \/ own

\* C24 as stated: two configure calls on the same interface may interleave
\* their store steps (no lock is taken), and when both have returned,
\* exactly one document defines the interface and its settings are those of
\* one of the two calls.
C24_LastWriterWins ==
    (workers["A"].name = workers["B"].name) =>
        /\ MayInterleave
        /\ BothDone =>
               /\ DefiningFiles(netplan, "eth0") = {"01-eth0.yaml"}
               /\ \E w \in DOMAIN workers :
                      IsSettingsOf(netplan["01-eth0.yaml"].eth["eth0"], workers[w].config)

\* C24 amended: two configure calls on the same interface never interleave
\* their store steps: the second is served after the first has returned.
\* When both have returned, the store is the one the call served last left
\* (a call the handler answers with 404 or 500 before the engine leaves the
\* store alone): after its success 01-<name>.yaml defines the interface
\* alone with the settings of that call; after its failure 01-<name>.yaml
\* defines the interface only if that call wrote it before it failed, or if
\* the process cannot read, delete or rewrite it; any other document that still
\* defines the interface is one the process cannot read, delete or rewrite.
C24_LastWriterWinsAmended ==
    (workers["A"].name = workers["B"].name) =>
        /\ OneAtATime
        /\ (BothDone /\ ~Rejected(last.name)) =>
               StoreAfterCall(last.name, last.cfg, last.status)

\* configure(eth0, static) was served and returned, then configure(eth0,
\* dhcp): the document holds the dhcp settings of the second call.
C24_Witness ==
    /\ BothDone /\ workers["A"].name = workers["B"].name
    /\ workers["A"].status = 200 /\ workers["B"].status = 200
    /\ workers["A"].config = CfgStatic /\ workers["B"].config = CfgDhcp
    /\ last.cfg = CfgDhcp
    /\ netplan["01-eth0.yaml"].eth["eth0"].dhcp4

(***************************************************************************)
(* Properties of the life of one NetworkManager (SpecLifetime).            *)
(***************************************************************************)
\* C26: the backend kind and the container flag are computed at
\* construction and no operation changes them afterwards, also when the
\* operation changes the files detection looks at.
C26_DetectedOnce ==
    [][config_type' = config_type /\ is_container' = is_container]_vars

\* remove deleted the last file of the netplan directory and the backend
\* kind is still netplan.
C26_Witness ==
    /\ last.op \in {"mgr_cleanup", "cleanup"}
    /\ \E f \in Files : Exists(last.pre[f])
    /\ \A f \in Files : ~Exists(netplan[f])
    /\ config_type = "netplan"
    /\ detect_network_config_type([exists |-> TRUE, listing |-> {}], FALSE,
                                  ifile.exists, FALSE) # config_type

(***************************************************************************)
(* Restart (Spec).                                                         *)
(***************************************************************************)
\* The first step of the netplan restart sequence (link down, apply or
\* generate, link up) that stopped it: 0 when the sequence ran through.
\* With strict, a missing netplan tool inside a container counts too.
RestartTrouble(t, strict) ==
    IF t[1].r # "ok" THEN 1
    ELSE IF t[2].c = "netplan_apply" /\ t[2].r # "ok" THEN 2
    ELSE IF strict /\ t[2].c = "netplan_generate" /\ t[2].r = "absent" THEN 2
    ELSE IF t[3].r # "ok" THEN 3
    ELSE 0

UpCommands == {"ip_link_up", "ifup", "nmcli_up"}

RestartSequence(l, strict) ==
    (l.op = "restart" /\ l.status # 400) =>
        LET t == l.trace
            k == RestartTrouble(t, strict)
        IN /\ config_type = "netplan" =>
                 /\ t[1].c = "ip_link_down"
                 /\ k # 1 => t[2].c = IF is_container THEN "netplan_generate"
                                      ELSE "netplan_apply"
                 /\ k # 1 /\ k # 2 => t[3].c = "ip_link_up"
                 /\ k = 0 => Len(t) = 3 /\ l.status = 200
                 /\ k # 0 =>
                        /\ Len(t) > k
                        /\ t[k + 1].c = "ip_link_down"
                        /\ Len(t) <= k + 2
                        /\ Len(t) = k + 2 => t[k + 2].c = "ip_link_up"
                        /\ Len(t) = k + 1 => t[k + 1].r = "absent"
           /\ l.status \in {200, 500}
           /\ l.status = 200 <=>
                  (LastEvent(l).c \in UpCommands /\ LastEvent(l).r = "ok")

\* C27 as stated: restart on the netplan backend issues link down, then
\* netplan apply (generate in a container), then link up; when a checked
\* step fails or a tool is absent it falls back to an ip link down/up
\* cycle; on every backend kind it reports success only when the last
\* command it ran was a successful link up, ifup or nmcli connection up.
C27_RestartSequence == RestartSequence(last, TRUE)

\* C27 amended: as C27, the fallback being taken when link down, netplan
\* apply or link up fails or lacks its tool; inside a container the outcome
\* of netplan generate, a missing netplan tool included, is ignored and
\* link up follows.
C27_RestartSequenceAmended == RestartSequence(last, FALSE)

\* netplan apply failed on the host, the fallback cycle ran and the
\* restart succeeded.
C27_Witness ==
    /\ last.op = "restart" /\ last.status = 200
    /\ config_type = "netplan" /\ ~is_container
    /\ Len(last.trace) = 4
    /\ last.trace[2].c = "netplan_apply" /\ last.trace[2].r = "fail"
    /\ last.trace[3].c = "ip_link_down"
    /\ last.trace[4].c = "ip_link_up" /\ last.trace[4].r = "ok"

(***************************************************************************)
(* DirectIPApplier called directly (SpecApply).                            *)
(***************************************************************************)
\* The commands of a trace, in order, without the marker of the call.
Commands(t) ==
    LET u == SelectSeq(t, LAMBDA e : e.c # "direct_apply")
    IN [i \in 1..Len(u) |-> u[i].c]

AppliedStatic ==
    /\ last.op = "mgr_apply_directly"
    /\ ~last.cfg.is_dhcp
    /\ calculate_cidr(last.cfg.ip_address, last.cfg.netmask).exc = "none"

StaticSequence(config) ==
    <<"ip_link_up", "ip_addr_flush", "ip_addr_add">>
    \o (IF config.gateway # "" THEN <<"ip_route_del", "ip_route_add">> ELSE <<>>)
    \o (IF config.dns_servers # <<>> THEN <<"write_resolv">> ELSE <<>>)

\* C28: applying a static configuration whose CIDR can be computed issues
\* link up, address flush, address add of that CIDR, then default-route
\* delete and add via the gateway only if a gateway is given, then the DNS
\* rewrite only if DNS servers are given, in this order and nothing else;
\* a failing address add ends the call with an exception, and as long as
\* the ip tool exists and address add succeeds the whole sequence is issued
\* and the call returns, also when route add or the DNS rewrite fails.
C28_StaticSequence ==
    AppliedStatic =>
        LET t == last.trace
            cs == Commands(t)
            full == StaticSequence(last.cfg)
        IN /\ IsPrefix(cs, full)
           /\ \A i \in 1..Len(t) :
                  /\ (t[i].c = "ip_addr_add") =>
                         t[i].a = calculate_cidr(last.cfg.ip_address,
                                                 last.cfg.netmask).cidr
                  /\ (t[i].c = "ip_route_add") => t[i].a = <<last.cfg.gateway>>
                  /\ (t[i].c = "write_resolv") => t[i].a = last.cfg.dns_servers
                  /\ (t[i].c = "ip_addr_add" /\ t[i].r = "fail") =>
                         (last.status = 500 /\ i = Len(t))
           /\ ("ip" \notin absent /\ "ip_addr_add" \notin failing) =>
                  (last.status = 200 /\ cs = full)

C28_Witness ==
    /\ AppliedStatic
    /\ last.cfg.gateway # "" /\ last.cfg.dns_servers # <<>>
    /\ failing = {"ip_route_add", "write_resolv"}
    /\ last.status = 200
    /\ Commands(last.trace) = StaticSequence(last.cfg)

AppliedDhcp == last.op = "mgr_apply_directly" /\ last.cfg.is_dhcp

\* C29: applying a DHCP configuration brings the link up, flushes the
\* addresses and then launches the DHCP client, in this order; no address
\* add, route or DNS command is issued, the resolver file is left as it
\* was, and as long as the ip tool exists the three commands are issued and
\* the call returns, also when the DHCP client is missing or exits non-zero.
C29_DhcpPath ==
    AppliedDhcp =>
        LET cs == Commands(last.trace)
        IN /\ IsPrefix(cs, <<"ip_link_up", "ip_addr_flush", "dhclient">>)
           /\ resolv = last.preResolv
           /\ "ip" \notin absent =>
                  /\ last.status = 200
                  /\ cs = <<"ip_link_up", "ip_addr_flush", "dhclient">>

C29_Witness ==
    /\ AppliedDhcp
    /\ last.cfg.gateway # "" /\ last.cfg.dns_servers # <<>>
    /\ "dhclient" \in absent
    /\ last.status = 200
    /\ last.trace[Len(last.trace)] = Ev("dhclient", last.name, <<>>, "absent")

\* A call that has created or truncated its document and has not returned
\* yet.
Writing(w) == workers[w].pc \in {"write", "chmod", "validate", "activate", "resolv"}

\* C30: from the creation of 01-<name>.yaml by a configure call to the end
\* of that call the document is never readable by group or others, and after
\* a successful call it has mode 0600.
C30_OwnerOnly ==
    \A w \in DOMAIN workers :
        LET d == netplan[ConfigFileOf[workers[w].name]]
        IN /\ (Writing(w) /\ Exists(d)) => d.perm = "0600"
           /\ (workers[w].pc = "done" /\ workers[w].status = 200 /\ Exists(d))
                  => d.perm = "0600"

(***************************************************************************)
(* Enumeration of the netplan documents (SpecListing).                     *)
(***************************************************************************)
Listed == last.op = "netplan_files"

YamlFiles(store) == {f \in Files : IsYaml(f) /\ Exists(store[f])}

\* C31: the listing reports every *.yaml file of the directory exactly
\* once: the request succeeds, the number of entries equals the number of
\* *.yaml files, a document that cannot be read or parsed is reported with
\* an error and no interfaces, and every other document with the interfaces
\* it defines.
C31_ListEveryDocument ==
    Listed =>
        /\ last.status = 200
        /\ Len(last.trace) = Cardinality(YamlFiles(last.pre))
        /\ \A f \in YamlFiles(last.pre) :
               \E i \in 1..Len(last.trace) :
                   /\ last.trace[i].n = f
                   /\ \A j \in 1..Len(last.trace) : last.trace[j].n = f => j = i
                   /\ IF CanRead(last.pre[f]) /\ last.pre[f].form \in {"net", "empty"}
                      THEN last.trace[i].r = "ok"
                           /\ last.trace[i].a = DOMAIN last.pre[f].eth
                      ELSE last.trace[i].r = "fail" /\ last.trace[i].a = {}

(***************************************************************************)
(* Existence check of the handlers (Spec).                                 *)
(***************************************************************************)
\* configure or netplan cleanup was asked for a name the classifier accepts
\* and the inventory does not hold.
UnknownTarget ==
    /\ last.op \in {"configure", "cleanup"}
    /\ is_public_chars(NameChars[last.name])
    /\ last.name \notin inventory

\* C32: configure and netplan cleanup on a name that the classifier accepts
\* and that the inventory does not hold change nothing: no netplan document
\* and no interfaces file is written or deleted, the resolver file is left
\* alone and the only command run is the inventory query; the answer is 404
\* whenever the inventory query succeeded.
C32_NotFoundBeforeMutation ==
    UnknownTarget =>
        /\ netplan = last.pre /\ ifile = last.preIfile /\ resolv = last.preResolv
        /\ \A i \in 1..Len(last.trace) : last.trace[i].c = "ip_addr_show"
        /\ (Len(last.trace) = 1 /\ last.trace[1].r = "ok") <=> last.status = 404

C32_Witness ==
    /\ UnknownTarget
    /\ last.op = "configure" /\ config_type \in {"netplan", "interfaces"}
    /\ last.status = 404

(***************************************************************************)
(* Frame conditions of configure (SpecStore, SpecConfigure).               *)
(***************************************************************************)
\* The settings the *.yaml documents of a store define for an interface.
SettingsIn(store, n) == {store[f].eth[n] : f \in DefiningFiles(store, n)}

\* C33: configure(name, cfg) on the netplan backend leaves the definition
\* of every other interface as it was: an interface other than name that
\* some document defined before the call has exactly the same settings
\* defined after it, also when the document that defined it is itself named
\* 01-<name>.yaml.
C33_UpsertFrame ==
    (last.op = "mgr_configure" /\ config_type = "netplan") =>
        \A n \in StoreNames \ {last.name} :
            DefiningFiles(last.pre, n) # {} =>
                SettingsIn(netplan, n) = SettingsIn(last.pre, n)

\* The lines of an interfaces file that belong to the stanzas of interfaces
\* other than name: their auto and iface lines and the option lines under
\* them (owner is the interface of the stanza the walk is in, "" outside).
RECURSIVE OthersLines(_, _, _)
OthersLines(lines, name, owner) ==
    IF lines = <<>> THEN <<>>
    ELSE LET l == Head(lines)
             o == IF l.k \in {"auto", "iface"} THEN l.n
                  ELSE IF l.k = "opt" THEN owner ELSE ""
         IN (IF o \notin {"", name} THEN <<l>> ELSE <<>>)
            \o OthersLines(Tail(lines), name, o)

IsLegacyUpsert == last.op = "mgr_configure" /\ config_type = "interfaces"

\* C34: configure(name, cfg) on the interfaces-file backend leaves every
\* line of the stanza of any other interface as it was, the loopback stanza
\* and the stanza of an interface whose name begins with name included.
C34_LegacyFrame ==
    IsLegacyUpsert =>
        OthersLines(ifile.lines, last.name, "")
            = OthersLines(last.preIfile.lines, last.name, "")

\* C35: after a successful configure call on the netplan or the interfaces
\* backend, whatever configure calls came before it, the DHCP flag read back
\* for the interface equals the is_dhcp of that call.
C35_ReadBack ==
    (last.op = "mgr_configure" /\ last.status = 200
         /\ config_type \in {"netplan", "interfaces"}) =>
        is_dhcp_enabled(last.name) = last.cfg.is_dhcp

\* C36 as stated: configure(eth0) and configure(eth1) interleave their
\* store steps, starting from a store in which one document defines both
\* interfaces, and when both have returned each of the two interfaces is
\* defined by exactly one document, its own 01-<name>.yaml, with the
\* settings of its own call: no block one call removed has been brought
\* back by the rewrite the other call made of the shared document.
C36_NoResurrection ==
    (workers["A"].name # workers["B"].name) =>
        /\ MayInterleave
        /\ BothDone =>
               \A w \in DOMAIN workers :
                   LET n == workers[w].name
                   IN /\ DefiningFiles(netplan, n) = {ConfigFileOf[n]}
                      /\ IsSettingsOf(netplan[ConfigFileOf[n]].eth[n], workers[w].config)

\* C36 amended: configure(eth0) and configure(eth1) never interleave their
\* store steps: one is served after the other has returned.  Starting from
\* a store in which one document defines both interfaces, when both have
\* returned, for each call that reached the engine: after its success
\* 01-<name>.yaml defines its interface alone with the settings of that
\* call; after its failure 01-<name>.yaml defines the interface only if the
\* call wrote it before it failed, or if the process cannot read, delete
\* or rewrite it; any other document that still defines the interface is one
\* the process cannot read, delete or rewrite.  No block one call removed is
\* brought back by the other.
C36_NoResurrectionAmended ==
    (workers["A"].name # workers["B"].name) =>
        /\ OneAtATime
        /\ BothDone =>
               \A w \in DOMAIN workers :
                   ~Rejected(workers[w].name) =>
                       StoreAfterCall(workers[w].name, workers[w].config,
                                      workers[w].status)

\* Both calls have returned with success; the shared document, which both
\* rewrote or deleted in turn, is gone and each interface has its own
\* document.
C36_Witness ==
    /\ BothDone /\ workers["A"].name = "eth0" /\ workers["B"].name = "eth1"
    /\ workers["A"].status = 200 /\ workers["B"].status = 200
    /\ ~Exists(netplan["50-cloud-init.yaml"])
    /\ DefiningFiles(netplan, "eth0") = {"01-eth0.yaml"}
    /\ DefiningFiles(netplan, "eth1") = {"01-eth1.yaml"}
    /\ last.prevOp = "configure"

\* C37: a configure call runs DirectIPApplier at most once, on the netplan
\* and on the interfaces backend, inside and outside a container and
\* whatever the tools do; a failure inside DirectIPApplier on the container
\* path does not make the handler of the activation run it again.
C37_DirectOnce ==
    last.op = "mgr_configure" => Cardinality(Idx(last, "direct_apply")) <= 1

(***************************************************************************)
(* The resolver file (SpecResolver).                                       *)
(***************************************************************************)
\* _update_dns_servers has rewritten the file.
RewroteDns == last.op = "mgr_update_dns" /\ HasEvent(last, "write_resolv", "ok")

\* The lines of a resolver file that are no nameserver lines, in order.
OtherLines(lines) ==
    SelectSeq(lines, LAMBDA l : strip(l) = <<>> \/ Head(strip(l)) # "nameserver")

\* s is t with some of its elements left out.
RECURSIVE IsSubSeq(_, _)
IsSubSeq(s, t) ==
    IF s = <<>> THEN TRUE
    ELSE IF t = <<>> THEN FALSE
    ELSE IF Head(s) = Head(t) THEN IsSubSeq(Tail(s), Tail(t))
    ELSE IsSubSeq(s, Tail(t))

\* The lines without the white space at their ends.
Trimmed(lines) == [i \in 1..Len(lines) |-> rstrip(lines[i])]

\* C38 as stated: after _update_dns_servers(L) has rewritten the file,
\* whatever the prior file was, _get_dns_servers returns exactly L, in the
\* same order, and every line of the prior file that is no nameserver line
\* is in the new file, in the original relative order (a line counts as
\* preserved when only the white space at its end differs).
C38_DnsRoundTrip ==
    RewroteDns =>
        /\ get_dns_servers(resolv) = last.cfg.dns_servers
        /\ IsSubSeq(Trimmed(OtherLines(last.preResolv)), Trimmed(resolv))

\* Every entry is one word: it is not empty and holds no white space.
WellFormedServers(L) ==
    \A i \in 1..Len(L) : Len(dns_chars(L[i])) = 1 /\ L[i] \notin Whitespace

\* C38, amended: when every entry of L is one word (not empty, no white
\* space in it), _get_dns_servers returns exactly L in the same order; the
\* lines of the prior file that are no nameserver lines are all kept in
\* their order, each without the white space it had at its end, and no
\* other such line is added, except that a rewrite that leaves no line at
\* all writes one empty line.
C38_DnsRoundTripAmended ==
    RewroteDns =>
        /\ WellFormedServers(last.cfg.dns_servers) =>
               get_dns_servers(resolv) = last.cfg.dns_servers
        /\ LET kept == Trimmed(OtherLines(last.preResolv))
           IN OtherLines(resolv) =
                  IF kept = <<>> /\ last.cfg.dns_servers = <<>> THEN << <<>> >> ELSE kept

\* Two addresses replace the two of a prior file that also has three other
\* lines.
C38_Witness ==
    /\ RewroteDns
    /\ last.cfg.dns_servers = <<"8.8.8.8", "1.1.1.1">>
    /\ get_dns_servers(last.preResolv) = <<"1.1.1.1", "9.9.9.9">>
    /\ get_dns_servers(resolv) = <<"8.8.8.8", "1.1.1.1">>
    /\ Len(OtherLines(resolv)) = 3

\* The lines of a hosts file other than the lines for 127.0.1.1, in order.
NonAliasLines(lines) == SelectSeq(lines, LAMBDA l : l = <<>> \/ l[1] # S.alias)

\* C39: set_hostname changes only the lines for 127.0.1.1 of the hosts
\* file: every other line (other addresses, comments, comments that mention
\* 127.0.1.1 or 127.0.0.1 included) is in the file afterwards with the same
\* content and in the same relative order.
C39_HostsFrame ==
    (SetWroteHosts(last) /\ last.preHosts.exists) =>
        NonAliasLines(hosts.lines) = NonAliasLines(last.preHosts.lines)

====
